---- MODULE Spec2Model ----
(***************************************************************************)
(* State-machine model of the hex view of angr-management:                 *)
(*   HexHighlightRegion / PatchHighlightRegion, HexGraphicsObject and      *)
(*   HexView of src/angrmanagement/ui/views/hex_view.py.                   *)
(*                                                                         *)
(* Four specifications share the variables:                                *)
(*   SpecGrid  the HexGraphicsObject on its own, driven through its public *)
(*             methods and event handlers, with the write/read callbacks   *)
(*             and the cursor_changed observer chosen by the environment;  *)
(*   Spec      the HexView: the grid wired to the project's patch set      *)
(*             (write_func = project_memory_write_func, observer =         *)
(*             on_cursor_changed), plus the context-menu operations;       *)
(*   SpecGeom  the address/row/column conversions as pure functions;       *)
(*   SpecScenario  the HexView taken through one write, a write right      *)
(*             above it, a split between the two and a merge.              *)
(***************************************************************************)
EXTENDS Integers, Sequences, FiniteSets, TLC

VARIABLES
    hex,      \* the HexGraphicsObject's fields
    view,     \* the HexView's fields
    patches,  \* project.kb.patches: patch address -> its new_bytes
    geom,     \* inputs and results of the pure geometry functions
    scenario, \* inputs and progress of the write / extend / split / merge scenario
    edit,     \* the byte behind the grid's callbacks and the last nibble edit made on it
    jm,       \* the JobManager, its worker thread and the jobs
    last      \* the name of the handler that ran last

vars == <<hex, view, patches, geom, scenario, edit, jm, last>>

(***************************************************************************)
(* Bounds of the model.                                                    *)
(***************************************************************************)
MaxStart == 1        \* set_data start addresses are 0..MaxStart
MaxBytes == 2        \* set_data byte counts are 0..MaxBytes
MaxRegionSize == 2   \* sizes of the plain regions the environment supplies
LoaderSize == 2      \* size of the loaded object in Spec (loader.max_addr - loader.min_addr + 1)
MaxWrite == 2        \* longest byte string of the writes the patch properties are checked for
GeomMaxStart == 33   \* SpecGeom: start addresses 0..GeomMaxStart
GeomMaxBytes == 34   \* SpecGeom: byte counts 0..GeomMaxBytes

(***************************************************************************)
(* Python values.                                                          *)
(***************************************************************************)
None == -1           \* Optional[...] = None; addresses and nibbles are >= 0

Min(a, b) == IF a <= b THEN a ELSE b
Max(a, b) == IF a >= b THEN a ELSE b

\* int(x / y) for y > 0: Python's float division followed by truncation toward zero
TruncDiv(x, y) == IF x >= 0 THEN x \div y ELSE -((-x) \div y)

\* x & ~0xf and x & 0xf on Python's unbounded two's-complement integers
AlignDown16(x) == x - (x % 16)
Low4(x) == x % 16

\* s[a:b] of a Python sequence, 0-based, for 0 <= a, b (clamped to len(s))
Slice(s, a, b) ==
    LET hi == Min(b, Len(s))
    IN  IF a >= hi THEN <<>> ELSE [i \in 1..(hi - a) |-> s[a + i]]

\* s[a:]
SliceFrom(s, a) == Slice(s, a, Len(s))

(***************************************************************************)
(* HexHighlightRegion.__init__ : a region starts inactive.                 *)
(* patch is the id of the Patch object a PatchHighlightRegion wraps, None  *)
(* for a plain region.                                                     *)
(***************************************************************************)
HexHighlightRegion(color, addr, size) ==
    [color |-> color, addr |-> addr, size |-> size, active |-> FALSE, patch |-> None]

(***************************************************************************)
(* HexGraphicsObject.__init__                                              *)
(***************************************************************************)
HexInit ==
    [start_addr |-> 0,
     num_bytes |-> 0,
     end_addr |-> 0,
     cursor |-> 0,
     cursor_nibble |-> None,
     selection_start |-> None,
     mouse_pressed |-> FALSE,
     num_rows |-> 0,
     ascii_column_active |-> FALSE,
     highlighted_regions |-> <<>>,
     processing_cursor_update |-> FALSE]

(***************************************************************************)
(* HexGraphicsObject: selection, active flags, region lookup.              *)
(* These operators take and return the record h of the object's fields.    *)
(***************************************************************************)
begin_selection(h) == [h EXCEPT !.selection_start = h.cursor]

clear_selection(h) == [h EXCEPT !.selection_start = None]

\* a variant that takes the address one past the region for its last address
RegionActiveEndExclusive(region, minaddr, maxaddr) ==
    LET region_end == region.addr + region.size
    IN  ~(region.addr > maxaddr \/ minaddr > region_end)

\* region.active = not (region.addr > maxaddr or minaddr > region_end)
RegionActive(region, minaddr, maxaddr) ==
    LET region_end == region.addr + region.size - 1
    IN  ~(region.addr > maxaddr \/ minaddr > region_end)

update_active_highlight_regions(h) ==
    LET minaddr == IF h.selection_start = None THEN h.cursor
                   ELSE Min(h.cursor, h.selection_start)
        maxaddr == IF h.selection_start = None THEN h.cursor
                   ELSE Max(h.cursor, h.selection_start)
    IN  [h EXCEPT !.highlighted_regions =
            [i \in DOMAIN h.highlighted_regions |->
                [h.highlighted_regions[i] EXCEPT
                    !.active = RegionActive(h.highlighted_regions[i], minaddr, maxaddr)]]]

set_highlight_regions(h, regions) ==
    update_active_highlight_regions([h EXCEPT !.highlighted_regions = regions])

get_active_highlight_regions(h) ==
    SelectSeq(h.highlighted_regions, LAMBDA rgn : rgn.active)

\* a variant that takes a region to reach one address further
get_highlight_regions_under_cursorEndInclusive(h) ==
    SelectSeq(h.highlighted_regions,
              LAMBDA region : region.addr <= h.cursor /\ h.cursor <= region.addr + region.size)

get_highlight_regions_under_cursor(h) ==
    SelectSeq(h.highlighted_regions,
              LAMBDA region : region.addr <= h.cursor /\ h.cursor < region.addr + region.size)

\* a variant that answers without looking at the cursor's position
get_selectionUnchecked(h) ==
    IF h.selection_start = None THEN <<None>>
    ELSE <<Min(h.cursor, h.selection_start), Max(h.cursor, h.selection_start)>>

\* get_selection: None, or the pair <<minaddr, maxaddr>>
get_selection(h) ==
    IF h.selection_start = None THEN <<None>>
    ELSE IF h.start_addr <= h.cursor /\ h.cursor < h.end_addr
         THEN <<Min(h.cursor, h.selection_start), Max(h.cursor, h.selection_start)>>
         ELSE <<None>>

(***************************************************************************)
(* Address <-> (row, column).                                              *)
(***************************************************************************)
row_col_to_addr(start_addr, row, col) == AlignDown16(start_addr) + row * 16 + col

\* a variant that measures from start_addr instead of from the start of its row
addr_to_row_colUnaligned(start_addr, addr) ==
    LET rel == addr - start_addr
    IN  <<(rel - (rel % 16)) \div 16, rel % 16>>

\* addr >> 4 is the floor division by 16 and addr & 15 the non-negative remainder,
\* also for a negative addr (Python integers)
addr_to_row_col(start_addr, addr) ==
    LET rel == addr - AlignDown16(start_addr)
    IN  <<(rel - (rel % 16)) \div 16, rel % 16>>

\* a variant that counts the rows as if the region started at the beginning of a row
NumRowsAligned(start_addr, num_bytes) ==
    IF num_bytes > 0
    THEN TruncDiv(num_bytes + 15, 16)
    ELSE 0

\* _update_layout: the row count
NumRows(start_addr, num_bytes) ==
    IF num_bytes > 0 THEN TruncDiv(num_bytes + Low4(start_addr) + 15, 16) ELSE 0

(***************************************************************************)
(* The project's patch set (angr's PatchManager, an external collaborator  *)
(* used through get_all_patches / add_patch_obj / remove_patch / values).  *)
(* Inside one handler the world w holds                                    *)
(*   w.heap  the Patch objects: object -> [addr, new_bytes]                *)
(*   w.pm    the manager's dict: key address -> object                     *)
(* An object that exists when the handler starts is named by the key it    *)
(* has then, and the one object a handler may create is named NewPatch.    *)
(* An object dropped from the dict stays in the heap while the handler     *)
(* still holds a reference to it.                                          *)
(***************************************************************************)
NewPatch == -2

Patch(addr, new_bytes) == [addr |-> addr, new_bytes |-> new_bytes]

\* len(patch)
PatchLen(w, o) == Len(w.heap[o].new_bytes)

\* pm.values(): the objects in ascending order of key (a SortedDict)
PatchValues(w) ==
    LET RECURSIVE Ordered(_)
        Ordered(K) ==
            IF K = {} THEN <<>>
            ELSE LET m == CHOOSE k \in K : \A q \in K : k <= q
                 IN  <<w.pm[m]>> \o Ordered(K \ {m})
    IN  Ordered(DOMAIN w.pm)

\* pm.get_all_patches(addr, size): the patches that intersect [addr, addr+size),
\* in ascending order of address
get_all_patches(w, addr, size) ==
    SelectSeq(PatchValues(w),
              LAMBDA o : w.heap[o].addr <= addr + size - 1
                         /\ addr <= w.heap[o].addr + PatchLen(w, o) - 1)

\* pm.remove_patch(addr): drop the entry keyed addr, if any
remove_patch(w, addr) ==
    [w EXCEPT !.pm = [k \in DOMAIN w.pm \ {addr} |-> w.pm[k]]]

\* pm.add_patch_obj(patch): self._patches[patch.addr] = patch
add_patch_obj(w, o) ==
    [w EXCEPT !.pm = [k \in DOMAIN w.pm \cup {w.heap[o].addr} |->
                         IF k = w.heap[o].addr THEN o ELSE w.pm[k]]]

\* a new Patch object
AllocPatch(w, patch) ==
    [w EXCEPT !.heap = [o \in DOMAIN w.heap \cup {NewPatch} |->
                           IF o = NewPatch THEN patch ELSE w.heap[o]]]

(***************************************************************************)
(* The classification index (instance.cfb) and the loader's memory:        *)
(* external data, fixed here. One data item followed by one block of       *)
(* one-byte instructions.                                                  *)
(***************************************************************************)
CfbItems ==
    { [addr |-> 0, size |-> 2, sort |-> "data", insns |-> <<>>],
      [addr |-> 2, size |-> 2, sort |-> "block", insns |-> << <<2, 1>>, <<3, 1>> >>] }

floor_item(addr) ==
    LET below == {it \in CfbItems : it.addr <= addr}
    IN  IF below = {} THEN {}
        ELSE {CHOOSE it \in below : \A x \in below : x.addr <= it.addr}

\* p.loader.memory[addr]: a byte, or None for KeyError
LoaderByte == 64
LoaderMemory(addr) == IF addr >= 0 /\ addr < LoaderSize THEN LoaderByte ELSE None

(***************************************************************************)
(* HexView: highlight-region generation. w is the world                    *)
(* [hex, view, heap, pm] a handler works on.                               *)
(***************************************************************************)
\* a variant whose region is one byte long whatever the patch holds
PatchHighlightRegionOneByte(w, o) ==
    [color |-> "yellow", addr |-> w.heap[o].addr, size |-> 1,
     active |-> FALSE, patch |-> o]

PatchHighlightRegion(w, o) ==
    [color |-> "yellow", addr |-> w.heap[o].addr, size |-> PatchLen(w, o),
     active |-> FALSE, patch |-> o]

_generate_highlight_regions_under_cursor(w) ==
    LET found == floor_item(w.hex.cursor)
    IN  IF found = {} THEN <<>>
        ELSE LET item == CHOOSE it \in found : TRUE
             IN  IF w.hex.cursor >= item.addr + item.size THEN <<>>
                 ELSE IF item.sort = "block"
                      THEN [i \in DOMAIN item.insns |->
                               HexHighlightRegion("instruction", item.insns[i][1], item.insns[i][2])]
                      ELSE <<HexHighlightRegion(IF item.sort = "string" THEN "string" ELSE "data",
                                                item.addr, item.size)>>

_set_highlighted_regions(w) ==
    [w EXCEPT !.hex = set_highlight_regions(w.hex,
        w.view.cfb_highlights \o w.view.sync_view_highlights \o w.view.patch_highlights)]

_update_highlight_regions_under_cursor(w) ==
    _set_highlighted_regions(
        [w EXCEPT !.view.cfb_highlights =
            IF w.view.smart_highlighting_enabled
            THEN _generate_highlight_regions_under_cursor(w) ELSE <<>>])

_update_highlight_regions_from_patches(w) ==
    _set_highlighted_regions(
        [w EXCEPT !.view.patch_highlights =
            [i \in DOMAIN PatchValues(w) |-> PatchHighlightRegion(w, PatchValues(w)[i])]])

\* pm_notifier.am_event(): the view's subscription regenerates the patch regions
am_event(w) ==
    _update_highlight_regions_from_patches([w EXCEPT !.view.notifications = @ + 1])

\* HexView.on_cursor_changed (through HexGraphicsView.on_cursor_changed)
on_cursor_changed(w) == _update_highlight_regions_under_cursor(w)

(***************************************************************************)
(* HexGraphicsObject.set_cursor. obs says what the observers of            *)
(* cursor_changed do: nothing, replace the overlay, try a nested move, or  *)
(* (kind "view") run HexView.on_cursor_changed.                            *)
(* ascii_column is None, 0 (False) or 1 (True).                            *)
(***************************************************************************)
ObsNone == [kind |-> "none", regions |-> <<>>, addr |-> None]
ObsRegions(regions) == [kind |-> "regions", regions |-> regions, addr |-> None]
ObsNested(addr) == [kind |-> "nested", regions |-> <<>>, addr |-> addr]
\* an observer that tries set_cursor(addr, ascii_column, nibble)
ObsNestedMove(addr, ascii_column, nibble) ==
    [kind |-> "nested_move", regions |-> <<>>, addr |-> addr,
     ascii_column |-> ascii_column, nibble |-> nibble]
ObsView == [kind |-> "view", regions |-> <<>>, addr |-> None]

RECURSIVE set_cursor(_, _, _, _, _)
RECURSIVE cursor_changed_emit(_, _)

cursor_changed_emit(w, obs) ==
    CASE obs.kind = "none" -> w
      [] obs.kind = "regions" -> [w EXCEPT !.hex = set_highlight_regions(w.hex, obs.regions)]
      [] obs.kind = "nested" -> set_cursor(w, obs.addr, None, None, ObsNone)
      [] obs.kind = "nested_move" ->
            set_cursor(w, obs.addr, obs.ascii_column, obs.nibble, ObsNone)
      [] obs.kind = "view" -> on_cursor_changed(w)

\* a variant whose upper bound check is off by one
set_cursorEndInclusive(w, addr, ascii_column, nibble, obs) ==
    IF addr > w.hex.end_addr \/ addr < w.hex.start_addr THEN w
    ELSE IF w.hex.processing_cursor_update THEN w
    ELSE
      LET cursor_changed == w.hex.cursor # addr
          w1 == [w EXCEPT !.hex.processing_cursor_update = TRUE,
                          !.hex.ascii_column_active =
                              IF ascii_column # None THEN ascii_column = 1 ELSE @,
                          !.hex.cursor = addr,
                          !.hex.cursor_nibble = nibble]
          w2 == cursor_changed_emit(w1, obs)
          w3 == IF cursor_changed
                THEN [w2 EXCEPT !.hex = update_active_highlight_regions(w2.hex)]
                ELSE w2
      IN  [w3 EXCEPT !.hex.processing_cursor_update = FALSE]

\* a variant without the test of the move in progress
set_cursorNoGuard(w, addr, ascii_column, nibble, obs) ==
    IF addr >= w.hex.end_addr \/ addr < w.hex.start_addr THEN w
    ELSE
      LET cursor_changed == w.hex.cursor # addr
          w1 == [w EXCEPT !.hex.processing_cursor_update = TRUE,
                          !.hex.ascii_column_active =
                              IF ascii_column # None THEN ascii_column = 1 ELSE @,
                          !.hex.cursor = addr,
                          !.hex.cursor_nibble = nibble]
          w2 == cursor_changed_emit(w1, obs)
          w3 == IF cursor_changed
                THEN [w2 EXCEPT !.hex = update_active_highlight_regions(w2.hex)]
                ELSE w2
      IN  [w3 EXCEPT !.hex.processing_cursor_update = FALSE]

\* a variant that tells the observers only when the cursor address changed
set_cursorEmitOnChange(w, addr, ascii_column, nibble, obs) ==
    IF addr >= w.hex.end_addr \/ addr < w.hex.start_addr THEN w
    ELSE IF w.hex.processing_cursor_update THEN w
    ELSE
      LET cursor_changed == w.hex.cursor # addr
          w1 == [w EXCEPT !.hex.processing_cursor_update = TRUE,
                          !.hex.ascii_column_active =
                              IF ascii_column # None THEN ascii_column = 1 ELSE @,
                          !.hex.cursor = addr,
                          !.hex.cursor_nibble = nibble]
          w2 == IF cursor_changed THEN cursor_changed_emit(w1, obs) ELSE w1
          w3 == IF cursor_changed
                THEN [w2 EXCEPT !.hex = update_active_highlight_regions(w2.hex)]
                ELSE w2
      IN  [w3 EXCEPT !.hex.processing_cursor_update = FALSE]

\* a variant that clears the re-entrancy flag only on the path that recomputes the flags
set_cursorFlagOnChange(w, addr, ascii_column, nibble, obs) ==
    IF addr >= w.hex.end_addr \/ addr < w.hex.start_addr THEN w
    ELSE IF w.hex.processing_cursor_update THEN w
    ELSE
      LET cursor_changed == w.hex.cursor # addr
          w1 == [w EXCEPT !.hex.processing_cursor_update = TRUE,
                          !.hex.ascii_column_active =
                              IF ascii_column # None THEN ascii_column = 1 ELSE @,
                          !.hex.cursor = addr,
                          !.hex.cursor_nibble = nibble]
          w2 == cursor_changed_emit(w1, obs)
      IN  IF cursor_changed
          THEN [w2 EXCEPT !.hex = [update_active_highlight_regions(w2.hex)
                                       EXCEPT !.processing_cursor_update = FALSE]]
          ELSE w2

set_cursor(w, addr, ascii_column, nibble, obs) ==
    IF addr >= w.hex.end_addr \/ addr < w.hex.start_addr THEN w
    ELSE IF w.hex.processing_cursor_update THEN w
    ELSE
      LET cursor_changed == w.hex.cursor # addr
          w1 == [w EXCEPT !.hex.processing_cursor_update = TRUE,
                          !.hex.ascii_column_active =
                              IF ascii_column # None THEN ascii_column = 1 ELSE @,
                          !.hex.cursor = addr,
                          !.hex.cursor_nibble = nibble]
          w2 == cursor_changed_emit(w1, obs)
          w3 == IF cursor_changed
                THEN [w2 EXCEPT !.hex = update_active_highlight_regions(w2.hex)]
                ELSE w2
      IN  [w3 EXCEPT !.hex.processing_cursor_update = FALSE]

\* _update_layout
_update_layout(w) ==
    [w EXCEPT !.hex.num_rows = NumRows(w.hex.start_addr, w.hex.num_bytes)]

\* a variant that leaves the cursor where it was
_set_data_commonKeepCursor(w, obs) ==
    _update_layout([w EXCEPT !.hex.end_addr = w.hex.start_addr + w.hex.num_bytes])

\* _set_data_common, after start_addr and num_bytes are assigned
_set_data_common(w, obs) ==
    LET w1 == [w EXCEPT !.hex.end_addr = w.hex.start_addr + w.hex.num_bytes]
    IN  _update_layout(set_cursor(w1, w1.hex.start_addr, None, None, obs))

set_data(w, start_addr, num_bytes, obs) ==
    _set_data_common([w EXCEPT !.hex.start_addr = start_addr,
                               !.hex.num_bytes = num_bytes], obs)

set_data_callback(w, start_addr, num_bytes, obs) ==
    _set_data_common([w EXCEPT !.hex.start_addr = start_addr,
                               !.hex.num_bytes = num_bytes], obs)

(***************************************************************************)
(* HexView: reading and writing project memory through the patch set.      *)
(***************************************************************************)
\* a byte, or None for '?'
project_memory_read_func(w, addr) ==
    LET found == get_all_patches(w, addr, 1)
    IN  IF Len(found) > 0
        THEN w.heap[found[1]].new_bytes[addr - w.heap[found[1]].addr + 1]
        ELSE LoaderMemory(addr)

\* a variant that inserts new_bytes at lo and replaces nothing
SpliceBytesInsert(b, lo, hi, new_bytes) == Slice(b, 0, lo) \o new_bytes \o SliceFrom(b, lo)

\* b[lo:hi] = new_bytes on a bytearray b
SpliceBytes(b, lo, hi, new_bytes) == Slice(b, 0, lo) \o new_bytes \o SliceFrom(b, hi)

\* a variant of the loop body that leaves a patch the write covers in the patch set
auto_patch_stepKeepCovered(acc, o, addr, new_bytes) ==
    LET w == acc.w
        max_addr == addr + Len(new_bytes) - 1
        p == w.heap[o]
        patch_max_addr == p.addr + Len(p.new_bytes) - 1
    IN  IF acc.returned \/ acc.failed THEN acc
        ELSE IF p.addr <= addr /\ patch_max_addr >= max_addr
        THEN [acc EXCEPT
                !.w.heap[o].new_bytes =
                    SpliceBytes(p.new_bytes, addr - p.addr, max_addr - p.addr + 1, new_bytes),
                !.returned = TRUE]
        ELSE IF p.addr >= addr /\ patch_max_addr <= max_addr
        THEN acc
        ELSE IF p.addr >= addr /\ patch_max_addr > max_addr
        THEN LET new_p_addr == max_addr + 1
                 w1 == remove_patch(w, p.addr)
                 w2 == [w1 EXCEPT !.heap[o] =
                           Patch(new_p_addr, SliceFrom(p.new_bytes, new_p_addr - p.addr))]
             IN  [acc EXCEPT !.w = add_patch_obj(w2, o)]
        ELSE IF p.addr < addr /\ patch_max_addr <= max_addr
        THEN LET w1 == remove_patch(w, p.addr)
                 w2 == [w1 EXCEPT !.heap[o].new_bytes = Slice(p.new_bytes, 0, addr - p.addr)]
             IN  [acc EXCEPT !.w = add_patch_obj(w2, o)]
        ELSE [acc EXCEPT !.failed = TRUE]

\* a variant of the loop body that does not shrink a patch whose lower portion the
\* write covers
auto_patch_stepNoShrink(acc, o, addr, new_bytes) ==
    LET w == acc.w
        max_addr == addr + Len(new_bytes) - 1
        p == w.heap[o]
        patch_max_addr == p.addr + Len(p.new_bytes) - 1
    IN  IF acc.returned \/ acc.failed THEN acc
        ELSE IF p.addr <= addr /\ patch_max_addr >= max_addr
        THEN [acc EXCEPT
                !.w.heap[o].new_bytes =
                    SpliceBytes(p.new_bytes, addr - p.addr, max_addr - p.addr + 1, new_bytes),
                !.returned = TRUE]
        ELSE IF p.addr >= addr /\ patch_max_addr <= max_addr
        THEN [acc EXCEPT !.w = remove_patch(w, p.addr)]
        ELSE IF p.addr >= addr /\ patch_max_addr > max_addr
        THEN acc
        ELSE IF p.addr < addr /\ patch_max_addr <= max_addr
        THEN LET w1 == remove_patch(w, p.addr)
                 w2 == [w1 EXCEPT !.heap[o].new_bytes = Slice(p.new_bytes, 0, addr - p.addr)]
             IN  [acc EXCEPT !.w = add_patch_obj(w2, o)]
        ELSE [acc EXCEPT !.failed = TRUE]

\* a variant whose shrink-down keeps one byte too many of the patch below
auto_patch_stepLongShrink(acc, o, addr, new_bytes) ==
    LET w == acc.w
        max_addr == addr + Len(new_bytes) - 1
        p == w.heap[o]
        patch_max_addr == p.addr + Len(p.new_bytes) - 1
    IN  IF acc.returned \/ acc.failed THEN acc
        ELSE IF p.addr <= addr /\ patch_max_addr >= max_addr
        THEN [acc EXCEPT
                !.w.heap[o].new_bytes =
                    SpliceBytes(p.new_bytes, addr - p.addr, max_addr - p.addr + 1, new_bytes),
                !.returned = TRUE]
        ELSE IF p.addr >= addr /\ patch_max_addr <= max_addr
        THEN [acc EXCEPT !.w = remove_patch(w, p.addr)]
        ELSE IF p.addr >= addr /\ patch_max_addr > max_addr
        THEN LET new_p_addr == max_addr + 1
                 w1 == remove_patch(w, p.addr)
                 w2 == [w1 EXCEPT !.heap[o] =
                           Patch(new_p_addr, SliceFrom(p.new_bytes, new_p_addr - p.addr))]
             IN  [acc EXCEPT !.w = add_patch_obj(w2, o)]
        ELSE IF p.addr < addr /\ patch_max_addr <= max_addr
        THEN LET w1 == remove_patch(w, p.addr)
                 w2 == [w1 EXCEPT !.heap[o].new_bytes = Slice(p.new_bytes, 0, addr - p.addr + 1)]
             IN  [acc EXCEPT !.w = add_patch_obj(w2, o)]
        ELSE [acc EXCEPT !.failed = TRUE]

\* a variant whose containment case wants the patch to start at the write's address
auto_patch_stepExactStart(acc, o, addr, new_bytes) ==
    LET w == acc.w
        max_addr == addr + Len(new_bytes) - 1
        p == w.heap[o]
        patch_max_addr == p.addr + Len(p.new_bytes) - 1
    IN  IF acc.returned \/ acc.failed THEN acc
        ELSE IF p.addr = addr /\ patch_max_addr >= max_addr
        THEN [acc EXCEPT
                !.w.heap[o].new_bytes =
                    SpliceBytes(p.new_bytes, addr - p.addr, max_addr - p.addr + 1, new_bytes),
                !.returned = TRUE]
        ELSE IF p.addr >= addr /\ patch_max_addr <= max_addr
        THEN [acc EXCEPT !.w = remove_patch(w, p.addr)]
        ELSE IF p.addr >= addr /\ patch_max_addr > max_addr
        THEN LET new_p_addr == max_addr + 1
                 w1 == remove_patch(w, p.addr)
                 w2 == [w1 EXCEPT !.heap[o] =
                           Patch(new_p_addr, SliceFrom(p.new_bytes, new_p_addr - p.addr))]
             IN  [acc EXCEPT !.w = add_patch_obj(w2, o)]
        ELSE IF p.addr < addr /\ patch_max_addr <= max_addr
        THEN LET w1 == remove_patch(w, p.addr)
                 w2 == [w1 EXCEPT !.heap[o].new_bytes = Slice(p.new_bytes, 0, addr - p.addr)]
             IN  [acc EXCEPT !.w = add_patch_obj(w2, o)]
        ELSE [acc EXCEPT !.failed = TRUE]

\* a variant whose shrink-down keeps one byte too few of the patch below
auto_patch_stepShortShrink(acc, o, addr, new_bytes) ==
    LET w == acc.w
        max_addr == addr + Len(new_bytes) - 1
        p == w.heap[o]
        patch_max_addr == p.addr + Len(p.new_bytes) - 1
    IN  IF acc.returned \/ acc.failed THEN acc
        ELSE IF p.addr <= addr /\ patch_max_addr >= max_addr
        THEN [acc EXCEPT
                !.w.heap[o].new_bytes =
                    SpliceBytes(p.new_bytes, addr - p.addr, max_addr - p.addr + 1, new_bytes),
                !.returned = TRUE]
        ELSE IF p.addr >= addr /\ patch_max_addr <= max_addr
        THEN [acc EXCEPT !.w = remove_patch(w, p.addr)]
        ELSE IF p.addr >= addr /\ patch_max_addr > max_addr
        THEN LET new_p_addr == max_addr + 1
                 w1 == remove_patch(w, p.addr)
                 w2 == [w1 EXCEPT !.heap[o] =
                           Patch(new_p_addr, SliceFrom(p.new_bytes, new_p_addr - p.addr))]
             IN  [acc EXCEPT !.w = add_patch_obj(w2, o)]
        ELSE IF p.addr < addr /\ patch_max_addr <= max_addr
        THEN LET w1 == remove_patch(w, p.addr)
                 w2 == [w1 EXCEPT !.heap[o].new_bytes = Slice(p.new_bytes, 0, addr - p.addr - 1)]
             IN  [acc EXCEPT !.w = add_patch_obj(w2, o)]
        ELSE [acc EXCEPT !.failed = TRUE]

\* One pass of auto_patch's loop body for the patch object o. acc.w is the world so
\* far, acc.returned says that the loop has returned, acc.failed that the assertion
\* of the last branch was hit.
auto_patch_step(acc, o, addr, new_bytes) ==
    LET w == acc.w
        max_addr == addr + Len(new_bytes) - 1
        p == w.heap[o]
        patch_max_addr == p.addr + Len(p.new_bytes) - 1
    IN  IF acc.returned \/ acc.failed THEN acc
        ELSE IF p.addr <= addr /\ patch_max_addr >= max_addr
        THEN [acc EXCEPT
                !.w.heap[o].new_bytes =
                    SpliceBytes(p.new_bytes, addr - p.addr, max_addr - p.addr + 1, new_bytes),
                !.returned = TRUE]
        ELSE IF p.addr >= addr /\ patch_max_addr <= max_addr
        THEN [acc EXCEPT !.w = remove_patch(w, p.addr)]
        ELSE IF p.addr >= addr /\ patch_max_addr > max_addr
        THEN LET new_p_addr == max_addr + 1
                 w1 == remove_patch(w, p.addr)
                 w2 == [w1 EXCEPT !.heap[o] =
                           Patch(new_p_addr, SliceFrom(p.new_bytes, new_p_addr - p.addr))]
             IN  [acc EXCEPT !.w = add_patch_obj(w2, o)]
        ELSE IF p.addr < addr /\ patch_max_addr <= max_addr
        THEN LET w1 == remove_patch(w, p.addr)
                 w2 == [w1 EXCEPT !.heap[o].new_bytes = Slice(p.new_bytes, 0, addr - p.addr)]
             IN  [acc EXCEPT !.w = add_patch_obj(w2, o)]
        ELSE [acc EXCEPT !.failed = TRUE]

\* a variant that never extends and always adds a new patch
auto_patch_finishAlwaysNew(w, addr, new_bytes) ==
    add_patch_obj(AllocPatch(w, Patch(addr, new_bytes)), NewPatch)

\* a variant that puts the written bytes in front of the extended patch's bytes
auto_patch_finishPrepend(w, addr, new_bytes) ==
    LET below == IF addr > 0 THEN get_all_patches(w, addr - 1, 1) ELSE <<>>
    IN  IF Len(below) > 0
        THEN [w EXCEPT !.heap[below[1]].new_bytes = new_bytes \o @]
        ELSE add_patch_obj(AllocPatch(w, Patch(addr, new_bytes)), NewPatch)

\* a variant that looks for a patch below only from address 2 on
auto_patch_finishFromTwo(w, addr, new_bytes) ==
    LET below == IF addr > 1 THEN get_all_patches(w, addr - 1, 1) ELSE <<>>
    IN  IF Len(below) > 0
        THEN [w EXCEPT !.heap[below[1]].new_bytes = @ \o new_bytes]
        ELSE add_patch_obj(AllocPatch(w, Patch(addr, new_bytes)), NewPatch)

\* Check to see if we should extend an adjacent patch, else add a new patch
auto_patch_finish(w, addr, new_bytes) ==
    LET below == IF addr > 0 THEN get_all_patches(w, addr - 1, 1) ELSE <<>>
    IN  IF Len(below) > 0
        THEN [w EXCEPT !.heap[below[1]].new_bytes = @ \o new_bytes]
        ELSE add_patch_obj(AllocPatch(w, Patch(addr, new_bytes)), NewPatch)

\* auto_patch: [w, returned, failed]
auto_patch(w, addr, new_bytes) ==
    LET todo == get_all_patches(w, addr, Len(new_bytes))
        RECURSIVE Loop(_, _)
        Loop(acc, i) ==
            IF i > Len(todo) THEN acc
            ELSE Loop(auto_patch_step(acc, todo[i], addr, new_bytes), i + 1)
        looped == Loop([w |-> w, returned |-> FALSE, failed |-> FALSE], 1)
    IN  IF looped.returned \/ looped.failed THEN looped
        ELSE [looped EXCEPT !.w = auto_patch_finish(looped.w, addr, new_bytes)]

\* a variant that changes the patch set without telling anyone
project_memory_write_bytearrayQuiet(w, addr, value) ==
    LET r == auto_patch(w, addr, value)
    IN  IF r.failed THEN <<FALSE, [r.w EXCEPT !.view.assert_failed = TRUE]>>
        ELSE <<TRUE, r.w>>

\* project_memory_write_bytearray: <<ok, w>>. A failed assertion leaves the handler
\* by an exception: no notification, and the caller does not go on.
project_memory_write_bytearray(w, addr, value) ==
    LET r == auto_patch(w, addr, value)
    IN  IF r.failed THEN <<FALSE, [r.w EXCEPT !.view.assert_failed = TRUE]>>
        ELSE <<TRUE, am_event(r.w)>>

project_memory_write_func(w, addr, value) ==
    project_memory_write_bytearray(w, addr, <<value>>)

(***************************************************************************)
(* The callbacks of the grid. env.write is "view" when the grid belongs to *)
(* a HexView; for a grid on its own the write callback accepts or refuses  *)
(* and the read callback returns env.read (a byte, or None for a value     *)
(* that is not an int).                                                    *)
(***************************************************************************)
EnvView == [write |-> "view", read |-> None, obs |-> ObsView]

write_func(w, addr, value, env) ==
    CASE env.write = "view" -> project_memory_write_func(w, addr, value)
      [] env.write = "accept" -> <<TRUE, w>>
      [] env.write = "refuse" -> <<FALSE, w>>

read_func(w, addr, env) ==
    IF env.write = "view" THEN project_memory_read_func(w, addr) ELSE env.read

(***************************************************************************)
(* HexGraphicsObject: editing.                                             *)
(***************************************************************************)
\* a variant that leaves the cursor where it is after the write
_set_byte_valueStay(w, value, env) ==
    LET r == write_func(w, w.hex.cursor, value, env)
    IN  IF ~r[1] THEN r[2]
        ELSE set_cursor(r[2], r[2].hex.cursor, None, None, env.obs)

_set_byte_value(w, value, env) ==
    LET r == write_func(w, w.hex.cursor, value, env)
    IN  IF ~r[1] THEN r[2]
        ELSE set_cursor(r[2], r[2].hex.cursor + 1, None, None, env.obs)

\* a variant that clears the nibble that is not being edited
ClearNibbleOther(b, nibble) ==
    IF nibble = 0 THEN b - ((b \div 16) % 16) * 16 ELSE b - (b % 16)

\* b & ~(0xF << (nibble * 4)) for a byte b >= 0
ClearNibble(b, nibble) ==
    IF nibble = 1 THEN b - ((b \div 16) % 16) * 16 ELSE b - (b % 16)

\* the byte _set_nibble_value writes
NibbleByte(old, nibble, value) ==
    (IF old = None THEN 0 ELSE ClearNibble(old, nibble))
    + value * (IF nibble = 1 THEN 16 ELSE 1)

\* a variant that moves on whatever the write callback answers
_set_nibble_valueAlwaysAdvance(w, value, env) ==
    LET nibble == IF w.hex.cursor_nibble = None THEN 1 ELSE w.hex.cursor_nibble
        new_byte_value == NibbleByte(read_func(w, w.hex.cursor, env), nibble, value)
        r == write_func(w, w.hex.cursor, new_byte_value, env)
        next_nibble == 1 - nibble
    IN  set_cursor(r[2], r[2].hex.cursor + next_nibble, None, next_nibble, env.obs)

\* a variant whose first digit at a byte goes to the low nibble
_set_nibble_valueLowFirst(w, value, env) ==
    LET nibble == IF w.hex.cursor_nibble = None THEN 0 ELSE w.hex.cursor_nibble
        new_byte_value == NibbleByte(read_func(w, w.hex.cursor, env), nibble, value)
        r == write_func(w, w.hex.cursor, new_byte_value, env)
        next_nibble == 1 - nibble
    IN  IF ~r[1] THEN r[2]
        ELSE set_cursor(r[2], r[2].hex.cursor + next_nibble, None, next_nibble, env.obs)

_set_nibble_value(w, value, env) ==
    LET nibble == IF w.hex.cursor_nibble = None THEN 1 ELSE w.hex.cursor_nibble
        new_byte_value == NibbleByte(read_func(w, w.hex.cursor, env), nibble, value)
        r == write_func(w, w.hex.cursor, new_byte_value, env)
        next_nibble == 1 - nibble
    IN  IF ~r[1] THEN r[2]
        ELSE set_cursor(r[2], r[2].hex.cursor + next_nibble, None, next_nibble, env.obs)

(***************************************************************************)
(* HexGraphicsObject.keyPressEvent. A key is [name, code]: one of the      *)
(* movement keys, "Space", or "Char"; code is ord(event.text()).           *)
(***************************************************************************)
MovementKeyNames == {"Up", "Down", "Right", "Left", "PageUp", "PageDown"}

movement_keys(name) ==
    CASE name = "Up" -> -16
      [] name = "Down" -> 16
      [] name = "Right" -> 1
      [] name = "Left" -> -1
      [] name = "PageUp" -> -8 * 16
      [] name = "PageDown" -> 8 * 16

\* t.isascii() and t.isprintable()
IsPrintableAscii(code) == code >= 32 /\ code <= 126

\* t in '0123456789abcdefABCDEF'
IsHexDigit(code) ==
    \/ code >= 48 /\ code <= 57
    \/ code >= 97 /\ code <= 102
    \/ code >= 65 /\ code <= 70

\* int(t, 16)
HexDigitValue(code) ==
    IF code <= 57 THEN code - 48
    ELSE IF code >= 97 THEN code - 87
    ELSE code - 55

\* a variant that anchors the selection anew on every move made with Shift
keyPressEventReanchor(w, key, shift, ctrl, env) ==
    IF key.name \in MovementKeyNames
    THEN LET w1 == IF shift
                   THEN [w EXCEPT !.hex = begin_selection(w.hex)]
                   ELSE [w EXCEPT !.hex = clear_selection(w.hex)]
             new_cursor == w1.hex.cursor + movement_keys(key.name)
         IN  set_cursor(w1, new_cursor, None, None, env.obs)
    ELSE IF key.name = "Space" /\ ctrl
    THEN set_cursor(w, w.hex.cursor,
                    IF w.hex.ascii_column_active THEN 0 ELSE 1, None, env.obs)
    ELSE IF w.hex.ascii_column_active
         THEN IF IsPrintableAscii(key.code) THEN _set_byte_value(w, key.code, env) ELSE w
         ELSE IF IsHexDigit(key.code)
              THEN _set_nibble_value(w, HexDigitValue(key.code), env) ELSE w

keyPressEvent(w, key, shift, ctrl, env) ==
    IF key.name \in MovementKeyNames
    THEN LET w1 == IF shift
                   THEN IF w.hex.selection_start = None
                        THEN [w EXCEPT !.hex = begin_selection(w.hex)] ELSE w
                   ELSE [w EXCEPT !.hex = clear_selection(w.hex)]
             new_cursor == w1.hex.cursor + movement_keys(key.name)
         IN  set_cursor(w1, new_cursor, None, None, env.obs)
    ELSE IF key.name = "Space" /\ ctrl
    THEN set_cursor(w, w.hex.cursor,
                    IF w.hex.ascii_column_active THEN 0 ELSE 1, None, env.obs)
    ELSE IF w.hex.ascii_column_active
         THEN IF IsPrintableAscii(key.code) THEN _set_byte_value(w, key.code, env) ELSE w
         ELSE IF IsHexDigit(key.code)
              THEN _set_nibble_value(w, HexDigitValue(key.code), env) ELSE w

(***************************************************************************)
(* Pixel geometry (_update_layout, point_to_row, point_to_column,          *)
(* point_to_addr). The font metrics are those of a glyph CharWidth wide    *)
(* and TextHeight high.                                                    *)
(***************************************************************************)
CharWidth == 1
TextHeight == 4

row_padding == TruncDiv(TextHeight, 4)
row_height == TextHeight + row_padding
section_space == CharWidth * 4
addr_offset == CharWidth * 1
addr_width == CharWidth * 8
byte_width == CharWidth * 2
byte_space == CharWidth * 1
byte_group_space == CharWidth * 2
ascii_width == CharWidth * 1
ascii_space == 0

\* the 17 offsets of columns[0..16], held at positions 1..17
byte_column_offsets ==
    LET RECURSIVE Build(_)
        Build(i) ==
            IF i = 0 THEN <<addr_offset + addr_width + section_space>>
            ELSE LET prev == Build(i - 1)
                 IN  Append(prev, prev[Len(prev)] + byte_width
                                  + (IF i = 8 THEN byte_group_space ELSE byte_space))
    IN  Build(16)

ascii_column_offsets ==
    LET RECURSIVE Build(_)
        Build(i) ==
            IF i = 0 THEN <<byte_column_offsets[17] + section_space>>
            ELSE LET prev == Build(i - 1)
                 IN  Append(prev, prev[Len(prev)] + ascii_width + ascii_space)
    IN  Build(16)

\* <<row>>, or <<>> for None
point_to_row(h, y) ==
    LET row == TruncDiv(y, row_height)
    IN  IF row < h.num_rows THEN <<row>> ELSE <<>>

\* <<column>>, or <<>> for None
point_to_column(x, columns) ==
    LET hits == {i \in 0..(Len(columns) - 2) : columns[i + 1] <= x /\ x < columns[i + 2]}
    IN  IF hits = {} THEN <<>> ELSE <<CHOOSE i \in hits : \A j \in hits : i <= j>>

\* a variant without the final test of the address against the displayed range
point_to_addrUnchecked(h, pt) ==
    LET row == point_to_row(h, pt[2])
        bcol == point_to_column(pt[1], byte_column_offsets)
        acol == point_to_column(pt[1], ascii_column_offsets)
    IN  IF row = <<>> THEN <<>>
        ELSE IF bcol = <<>> /\ acol = <<>> THEN <<>>
        ELSE LET col == IF bcol # <<>> THEN bcol[1] ELSE acol[1]
                 addr == row_col_to_addr(h.start_addr, row[1], col)
             IN  <<addr, IF bcol # <<>> THEN 0 ELSE 1>>

\* <<addr, ascii_column>>, or <<>> for None
point_to_addr(h, pt) ==
    LET row == point_to_row(h, pt[2])
        bcol == point_to_column(pt[1], byte_column_offsets)
        acol == point_to_column(pt[1], ascii_column_offsets)
    IN  IF row = <<>> THEN <<>>
        ELSE IF bcol = <<>> /\ acol = <<>> THEN <<>>
        ELSE LET col == IF bcol # <<>> THEN bcol[1] ELSE acol[1]
                 addr == row_col_to_addr(h.start_addr, row[1], col)
             IN  IF addr < h.start_addr \/ addr >= h.end_addr THEN <<>>
                 ELSE <<addr, IF bcol # <<>> THEN 0 ELSE 1>>

(***************************************************************************)
(* HexGraphicsObject: mouse handlers. pt is <<x, y>>.                      *)
(***************************************************************************)
\* a variant that begins or clears the selection before it resolves the point
mousePressEventSelectFirst(w, left_button, pt, shift_only, env) ==
    IF ~left_button THEN w
    ELSE LET hit == point_to_addr(w.hex, pt)
             w2 == IF shift_only
                   THEN IF w.hex.selection_start = None
                        THEN [w EXCEPT !.hex = begin_selection(w.hex)] ELSE w
                   ELSE [w EXCEPT !.hex = clear_selection(w.hex)]
         IN  IF hit = <<>> THEN w2
             ELSE set_cursor([w2 EXCEPT !.hex.mouse_pressed = TRUE],
                             hit[1], hit[2], None, env.obs)

mousePressEvent(w, left_button, pt, shift_only, env) ==
    IF ~left_button THEN w
    ELSE LET hit == point_to_addr(w.hex, pt)
         IN  IF hit = <<>> THEN w
             ELSE LET w1 == [w EXCEPT !.hex.mouse_pressed = TRUE]
                      w2 == IF shift_only
                            THEN IF w1.hex.selection_start = None
                                 THEN [w1 EXCEPT !.hex = begin_selection(w1.hex)] ELSE w1
                            ELSE [w1 EXCEPT !.hex = clear_selection(w1.hex)]
                  IN  set_cursor(w2, hit[1], hit[2], None, env.obs)

\* sorted(regions, key=lambda r: cursor - r.addr): a stable sort
SortedNearestFirst(regions, cursor) ==
    LET RECURSIVE Sorted(_)
        Sorted(rs) ==
            IF rs = <<>> THEN <<>>
            ELSE LET first == CHOOSE i \in DOMAIN rs :
                                 /\ \A j \in DOMAIN rs : cursor - rs[i].addr <= cursor - rs[j].addr
                                 /\ \A j \in 1..(i - 1) : cursor - rs[j].addr # cursor - rs[i].addr
                 IN  <<rs[first]>> \o Sorted([k \in 1..(Len(rs) - 1) |->
                                                 IF k < first THEN rs[k] ELSE rs[k + 1]])
    IN  Sorted(regions)

\* a variant that begins the selection before the first move
mouseDoubleClickEventAnchorFirst(w, left_button, env) ==
    IF ~left_button THEN w
    ELSE LET regions == SortedNearestFirst(get_highlight_regions_under_cursor(w.hex),
                                           w.hex.cursor)
         IN  IF Len(regions) > 0
             THEN LET region == regions[1]
                      w1 == [w EXCEPT !.hex = begin_selection(w.hex)]
                      w2 == set_cursor(w1, region.addr + region.size - 1, None, None, env.obs)
                  IN  set_cursor(w2, region.addr, None, None, env.obs)
             ELSE w

mouseDoubleClickEvent(w, left_button, env) ==
    IF ~left_button THEN w
    ELSE LET regions == SortedNearestFirst(get_highlight_regions_under_cursor(w.hex),
                                           w.hex.cursor)
         IN  IF Len(regions) > 0
             THEN LET region == regions[1]
                      w1 == set_cursor(w, region.addr + region.size - 1, None, None, env.obs)
                      w2 == [w1 EXCEPT !.hex = begin_selection(w1.hex)]
                  IN  set_cursor(w2, region.addr, None, None, env.obs)
             ELSE w

mouseMoveEvent(w, pt, env) ==
    IF ~w.hex.mouse_pressed THEN w
    ELSE LET hit == point_to_addr(w.hex, pt)
         IN  IF hit = <<>> THEN w
             ELSE LET w1 == IF w.hex.selection_start = None
                            THEN [w EXCEPT !.hex = begin_selection(w.hex)] ELSE w
                  IN  set_cursor(w1, hit[1], hit[2], None, env.obs)

mouseReleaseEvent(w, left_button) ==
    IF left_button THEN [w EXCEPT !.hex.mouse_pressed = FALSE] ELSE w

(***************************************************************************)
(* PatchHighlightRegion: revert, split, merge. r is a region record whose  *)
(* patch field names the Patch object it wraps.                            *)
(***************************************************************************)
IsPatchRegion(r) == r.patch # None

revert(w, r) == am_event(remove_patch(w, w.heap[r.patch].addr))

\* a variant that refuses to split right after a patch's first byte
can_splitPastSecond(w, r) ==
    /\ w.heap[r.patch].addr + 1 < w.hex.cursor
    /\ w.hex.cursor < w.heap[r.patch].addr + PatchLen(w, r.patch)

\* a variant that also splits with the cursor on the patch's first address
can_splitFromStart(w, r) ==
    /\ w.heap[r.patch].addr <= w.hex.cursor
    /\ w.hex.cursor < w.heap[r.patch].addr + PatchLen(w, r.patch)

can_split(w, r) ==
    /\ w.heap[r.patch].addr < w.hex.cursor
    /\ w.hex.cursor < w.heap[r.patch].addr + PatchLen(w, r.patch)

\* a variant whose new patch starts one byte late in the buffer
splitOffByOne(w, r) ==
    LET cursor == w.hex.cursor
    IN  IF can_split(w, r)
        THEN LET o == cursor - w.heap[r.patch].addr
                 w1 == AllocPatch(w, Patch(cursor, SliceFrom(w.heap[r.patch].new_bytes, o + 1)))
                 w2 == [w1 EXCEPT !.heap[r.patch].new_bytes = Slice(@, 0, o)]
             IN  am_event(add_patch_obj(w2, NewPatch))
        ELSE w

split(w, r) ==
    LET cursor == w.hex.cursor
    IN  IF can_split(w, r)
        THEN LET o == cursor - w.heap[r.patch].addr
                 w1 == AllocPatch(w, Patch(cursor, SliceFrom(w.heap[r.patch].new_bytes, o)))
                 w2 == [w1 EXCEPT !.heap[r.patch].new_bytes = Slice(@, 0, o)]
             IN  am_event(add_patch_obj(w2, NewPatch))
        ELSE w

can_merge_with(w, r, other) ==
    w.heap[other.patch].addr = w.heap[r.patch].addr + PatchLen(w, r.patch)

\* a variant that puts other's bytes in front
merge_withReversed(w, r, other) ==
    IF can_merge_with(w, r, other)
    THEN LET w1 == [w EXCEPT !.heap[r.patch].new_bytes = w.heap[other.patch].new_bytes \o @]
         IN  am_event(remove_patch(w1, w1.heap[other.patch].addr))
    ELSE w

merge_with(w, r, other) ==
    IF can_merge_with(w, r, other)
    THEN LET w1 == [w EXCEPT !.heap[r.patch].new_bytes = @ \o w.heap[other.patch].new_bytes]
         IN  am_event(remove_patch(w1, w1.heap[other.patch].addr))
    ELSE w

(***************************************************************************)
(* HexView: operations on the selected patches, clipboard, set_cursor.     *)
(***************************************************************************)
SelectedPatchRegions(w) == SelectSeq(get_active_highlight_regions(w.hex), IsPatchRegion)

\* revert_selected_patches, once the prompt is answered Yes
revert_selected_patches(w) ==
    LET selected_regions == SelectedPatchRegions(w)
        RECURSIVE Loop(_, _)
        Loop(acc, i) ==
            IF i > Len(selected_regions) THEN acc
            ELSE Loop(revert(acc, selected_regions[i]), i + 1)
    IN  Loop(w, 1)

\* the passes of the while loop _merge_selected_patches is allowed before it is
\* reported as not ending
MergeFuel == 12

\* a variant whose search resumes one patch after the neighbor that could not be merged
_merge_selected_patchesSkipOne(w, trial_only) ==
    LET selected_patches == SelectedPatchRegions(w)
        n == Len(selected_patches)
        RECURSIVE Inner(_, _, _)
        Inner(st, i, j) ==
            IF i + 1 + j > n - 1 THEN st
            ELSE LET patch == selected_patches[i + 1]
                     neighbor == selected_patches[i + 1 + j + 1]
                 IN  IF can_merge_with(st.w, patch, neighbor)
                     THEN IF trial_only
                          THEN [st EXCEPT !.returned = TRUE, !.result = TRUE]
                          ELSE Inner([st EXCEPT !.w = merge_with(st.w, patch, neighbor),
                                                !.did_patch = TRUE], i, j + 1)
                     ELSE [st EXCEPT !.i = i + j + 2]
        RECURSIVE Outer(_, _)
        Outer(st, fuel) ==
            IF st.returned THEN st
            ELSE IF ~(st.i < n - 1) THEN [st EXCEPT !.returned = TRUE, !.result = st.did_patch]
            ELSE IF fuel = 0 THEN [st EXCEPT !.ended = FALSE]
            ELSE Outer(Inner(st, st.i, 0), fuel - 1)
    IN  Outer([w |-> w, i |-> 0, did_patch |-> FALSE, returned |-> FALSE,
               result |-> FALSE, ended |-> TRUE], MergeFuel)

\* _merge_selected_patches: [w, result, ended]
_merge_selected_patches(w, trial_only) ==
    LET selected_patches == SelectedPatchRegions(w)
        n == Len(selected_patches)
        \* the for loop over selected_patches[i+1:], from its j-th element on
        RECURSIVE Inner(_, _, _)
        Inner(st, i, j) ==
            IF i + 1 + j > n - 1 THEN st
            ELSE LET patch == selected_patches[i + 1]
                     neighbor == selected_patches[i + 1 + j + 1]
                 IN  IF can_merge_with(st.w, patch, neighbor)
                     THEN IF trial_only
                          THEN [st EXCEPT !.returned = TRUE, !.result = TRUE]
                          ELSE Inner([st EXCEPT !.w = merge_with(st.w, patch, neighbor),
                                                !.did_patch = TRUE], i, j + 1)
                     ELSE [st EXCEPT !.i = i + j + 1]
        RECURSIVE Outer(_, _)
        Outer(st, fuel) ==
            IF st.returned THEN st
            ELSE IF ~(st.i < n - 1) THEN [st EXCEPT !.returned = TRUE, !.result = st.did_patch]
            ELSE IF fuel = 0 THEN [st EXCEPT !.ended = FALSE]
            ELSE Outer(Inner(st, st.i, 0), fuel - 1)
    IN  Outer([w |-> w, i |-> 0, did_patch |-> FALSE, returned |-> FALSE,
               result |-> FALSE, ended |-> TRUE], MergeFuel)

_can_merge_any_selected_patches(w) == _merge_selected_patches(w, TRUE).result

\* _copy_selected_bytes; the clipboard <<>> stands for None (a copied selection
\* holds at least one byte)
_copy_selected_bytes(w) ==
    LET sel == get_selection(w.hex)
    IN  IF sel = <<None>> THEN [w EXCEPT !.view.clipboard = <<>>]
        ELSE [w EXCEPT !.view.clipboard =
                 [k \in 1..(sel[2] - sel[1] + 1) |->
                     LET d == project_memory_read_func(w, sel[1] + k - 1)
                     IN  IF d = None THEN 0 ELSE d]]

_paste_copied_bytes_at_cursor(w) ==
    IF w.view.clipboard # <<>>
    THEN project_memory_write_bytearray(w, w.hex.cursor, w.view.clipboard)[2]
    ELSE w

\* HexView.set_cursor
view_set_cursor(w, addr) ==
    set_cursor([w EXCEPT !.hex = clear_selection(w.hex)], addr, None, None, ObsView)

(***************************************************************************)
(* The step of a handler: the world at its start and the commit of the     *)
(* world at its end.                                                       *)
(***************************************************************************)
ViewInit ==
    [smart_highlighting_enabled |-> TRUE,
     clipboard |-> <<>>,
     cfb_highlights |-> <<>>,
     sync_view_highlights |-> <<>>,
     patch_highlights |-> <<>>,
     notifications |-> 0,
     assert_failed |-> FALSE]

\* the scenario's inputs: the address and the two byte strings written
ScenarioInit == [addr |-> 0, first |-> <<>>, second |-> <<>>, stage |-> 0]

\* no byte behind the callbacks and no edit made
EditInit == [mem |-> None, before |-> None, nibble |-> None, value |-> None, written |-> None]

\* the JobManager of the specifications that do not run it
JmInit == [idle |-> TRUE]

GeomInit ==
    [start_addr |-> 0, num_bytes |-> 0, converted |-> FALSE,
     addr |-> 0, row |-> 0, col |-> 0, back |-> 0]

\* notifications counts the change notifications of the handler that runs
World ==
    [hex |-> hex,
     view |-> [view EXCEPT !.notifications = 0],
     heap |-> [a \in DOMAIN patches |-> Patch(a, patches[a])],
     pm |-> [a \in DOMAIN patches |-> a]]

\* the objects the dict holds
InDict(w) == {w.pm[k] : k \in DOMAIN w.pm}

\* a region's patch reference, renamed to the key its object has in the dict
StalePatch == -3
CommitRegions(w, regions) ==
    [i \in DOMAIN regions |->
        IF regions[i].patch = None THEN regions[i]
        ELSE [regions[i] EXCEPT !.patch =
                 IF regions[i].patch \in InDict(w)
                 THEN CHOOSE k \in DOMAIN w.pm : w.pm[k] = regions[i].patch
                 ELSE StalePatch]]

Commit(w, op) ==
    /\ hex' = [w.hex EXCEPT !.highlighted_regions = CommitRegions(w, @)]
    /\ view' = [w.view EXCEPT !.patch_highlights = CommitRegions(w, @)]
    /\ patches' = [k \in DOMAIN w.pm |-> w.heap[w.pm[k]].new_bytes]
    /\ last' = op
    /\ UNCHANGED <<geom, scenario, edit, jm>>

(***************************************************************************)
(* SpecGrid: the HexGraphicsObject on its own.                             *)
(***************************************************************************)
\* the addresses a grid of SpecGrid can show, and one beyond
GridAddrs == 0..(MaxStart + MaxBytes)

\* the overlays the environment supplies
PlainRegion(addr, size) == HexHighlightRegion("green", addr, size)

RegionLists ==
    {<<>>,
     <<PlainRegion(1, MaxRegionSize)>>,
     <<PlainRegion(0, 1), PlainRegion(1, MaxRegionSize)>>,
     <<PlainRegion(MaxStart + 1, 1)>>}

\* what an observer of cursor_changed may do
GridObservers == {ObsNone, ObsNested(0), ObsRegions(<<PlainRegion(1, MaxRegionSize)>>)}

Bare(write, read, obs) == [write |-> write, read |-> read, obs |-> obs]

GridInit ==
    /\ hex = HexInit
    /\ view = ViewInit
    /\ patches = <<>>
    /\ geom = GeomInit
    /\ edit = EditInit
    /\ jm = JmInit
    /\ scenario = ScenarioInit
    /\ last = "init"

GridSetData ==
    \E start \in 0..MaxStart, n \in 0..MaxBytes, obs \in GridObservers :
        Commit(set_data(World, start, n, obs), "set_data")

GridSetDataCallback ==
    \E start \in 0..MaxStart, n \in 0..MaxBytes, obs \in GridObservers :
        Commit(set_data_callback(World, start, n, obs), "set_data")

\* a call of set_cursor; the tag says whether addr was inside [start_addr, end_addr)
GridSetCursor ==
    \E addr \in (GridAddrs \cup {-1}), ascii_column \in {None, 0, 1}, obs \in GridObservers :
        Commit(set_cursor(World, addr, ascii_column, None, obs),
               IF addr >= hex.end_addr \/ addr < hex.start_addr
               THEN "set_cursor_outside"
               ELSE IF obs.kind = "nested" THEN "set_cursor_nested"
               ELSE IF obs.kind = "regions" /\ addr = hex.cursor THEN "set_cursor_same"
               ELSE "set_cursor")

GridBeginSelection ==
    Commit([World EXCEPT !.hex = begin_selection(hex)], "begin_selection")

GridClearSelection ==
    Commit([World EXCEPT !.hex = clear_selection(hex)], "clear_selection")

GridSetHighlightRegions ==
    \E regions \in RegionLists :
        Commit([World EXCEPT !.hex = set_highlight_regions(hex, regions)],
               "set_highlight_regions")

GridKeyMove ==
    \E name \in MovementKeyNames, shift \in BOOLEAN, obs \in GridObservers :
        Commit(keyPressEvent(World, [name |-> name, code |-> 0], shift, FALSE,
                             Bare("accept", None, obs)),
               "key_move")

GridKeyToggleColumn ==
    Commit(keyPressEvent(World, [name |-> "Space", code |-> 32], FALSE, TRUE,
                         Bare("accept", None, ObsNone)),
           "key_toggle_column")

\* the character keys pressed: a hex digit, a printable non-digit, a control character
CharCodes == {52, 122, 9}
ReadValues == {None, 64}

GridKeyChar ==
    \E code \in CharCodes, write \in {"accept", "refuse"}, read \in ReadValues :
        /\ hex.start_addr <= hex.cursor /\ hex.cursor < hex.end_addr
        /\ Commit(keyPressEvent(World, [name |-> "Char", code |-> code], FALSE, FALSE,
                                Bare(write, read, ObsNone)),
                  IF write = "refuse"
                     /\ (IF hex.ascii_column_active THEN IsPrintableAscii(code)
                         ELSE IsHexDigit(code))
                  THEN "key_char_refused"
                  ELSE IF write = "accept" /\ hex.ascii_column_active /\ IsPrintableAscii(code)
                  THEN (IF hex.cursor = hex.end_addr - 1 THEN "key_byte_last" ELSE "key_byte")
                  ELSE "key_char")

\* points <<x, y>>: byte columns 0 and 1 and ascii column 0 of row 0, the address gutter,
\* and byte column 0 just above the grid, a row above it, and in row 1
Points == {<<13, 0>>, <<16, 0>>, <<67, 0>>, <<0, 0>>, <<13, -1>>, <<13, -6>>, <<13, 5>>}

GridMousePress ==
    \E left \in BOOLEAN, pt \in Points, shift_only \in BOOLEAN :
        Commit(mousePressEvent(World, left, pt, shift_only, Bare("accept", None, ObsNone)),
               "mouse_press")

GridMouseMove ==
    \E pt \in Points :
        Commit(mouseMoveEvent(World, pt, Bare("accept", None, ObsNone)), "mouse_move")

GridMouseRelease ==
    \E left \in BOOLEAN :
        Commit(mouseReleaseEvent(World, left), "mouse_release")

GridMouseDoubleClick ==
    \E left \in BOOLEAN, obs \in GridObservers :
        Commit(mouseDoubleClickEvent(World, left, Bare("accept", None, obs)),
               "mouse_double_click")

GridNext ==
    \/ GridSetData
    \/ GridSetDataCallback
    \/ GridSetCursor
    \/ GridBeginSelection
    \/ GridClearSelection
    \/ GridSetHighlightRegions
    \/ GridKeyMove
    \/ GridKeyToggleColumn
    \/ GridKeyChar
    \/ GridMousePress
    \/ GridMouseMove
    \/ GridMouseRelease
    \/ GridMouseDoubleClick

SpecGrid == GridInit /\ [][GridNext]_vars

(***************************************************************************)
(* Properties of the grid (SpecGrid).                                      *)
(***************************************************************************)
CursorInBounds(h) == h.start_addr <= h.cursor /\ h.cursor < h.end_addr

\* C1 as stated: in every reachable state start_addr <= cursor < end_addr.
\* Violated: a freshly constructed grid has start_addr = end_addr = cursor = 0.
C1_CursorAlwaysInBounds == CursorInBounds(hex)

\* C1, amended: in every reachable state of a grid that shows at least one byte
\* (num_bytes > 0), start_addr <= cursor < end_addr.
C1_CursorInBoundsWhenNonEmpty == hex.num_bytes > 0 => CursorInBounds(hex)

\* a non-empty region was put in place of another one and the cursor followed it
C1_Witness ==
    /\ last = "set_data"
    /\ hex.num_bytes > 0
    /\ hex.start_addr > 0
    /\ hex.cursor = hex.start_addr

\* the moves tried on the grid: every address around the displayed range,
\* with every column and nibble argument and every observer
MoveAddrs == (-1)..(MaxStart + MaxBytes + 1)

\* C4: for every address a outside [start_addr, end_addr), set_cursor(a) leaves the
\* cursor address unchanged, in every reachable state and for every other argument.
C4_OutOfBoundsMoveLeavesCursor ==
    \A a \in MoveAddrs, ascii_column \in {None, 0, 1}, nibble \in {None, 0, 1},
       obs \in GridObservers :
        (a < hex.start_addr \/ a >= hex.end_addr)
            => set_cursor(World, a, ascii_column, nibble, obs).hex.cursor = hex.cursor

\* set_cursor was called with an address outside a non-empty displayed range
C4_Witness ==
    /\ last = "set_cursor_outside"
    /\ hex.num_bytes > 0
    /\ hex.cursor = hex.end_addr - 1

\* C5 as stated: with an anchor set get_selection is (min, max) of cursor and anchor,
\* with none it is None. Violated: begin_selection on a grid whose cursor is outside
\* the displayed range (an empty grid) sets an anchor and get_selection is None.
C5_SelectionIsMinMaxOfAnchor ==
    IF hex.selection_start # None
    THEN get_selection(hex) = <<Min(hex.cursor, hex.selection_start),
                                Max(hex.cursor, hex.selection_start)>>
    ELSE get_selection(hex) = <<None>>

\* C5, amended: with an anchor set and the cursor inside [start_addr, end_addr)
\* get_selection is (min(cursor, anchor), max(cursor, anchor)); with no anchor set, or
\* with the cursor outside [start_addr, end_addr), it is None.
C5_SelectionIsMinMaxWhenCursorInBounds ==
    IF hex.selection_start # None /\ CursorInBounds(hex)
    THEN get_selection(hex) = <<Min(hex.cursor, hex.selection_start),
                                Max(hex.cursor, hex.selection_start)>>
    ELSE get_selection(hex) = <<None>>

\* a selection whose anchor lies above the cursor
C5_Witness ==
    /\ hex.selection_start # None
    /\ CursorInBounds(hex)
    /\ hex.cursor < hex.selection_start
    /\ last = "key_move"

\* every region's flag is the overlap test against the cursor/selection range
FlagsFresh(h) ==
    LET minaddr == IF h.selection_start = None THEN h.cursor
                   ELSE Min(h.cursor, h.selection_start)
        maxaddr == IF h.selection_start = None THEN h.cursor
                   ELSE Max(h.cursor, h.selection_start)
    IN  \A i \in DOMAIN h.highlighted_regions :
            LET r == h.highlighted_regions[i]
            IN  r.active <=> (r.addr <= maxaddr /\ minaddr <= r.addr + r.size - 1)

\* C6: right after set_highlight_regions, and right after a set_cursor that changed the
\* cursor, every region is active iff it overlaps the cursor/selection range.
C6_FlagsFreshAfterRecompute ==
    /\ \A regions \in RegionLists : FlagsFresh(set_highlight_regions(hex, regions))
    /\ \A a \in MoveAddrs, obs \in GridObservers :
          LET moved == set_cursor(World, a, None, None, obs).hex
          IN  moved.cursor # hex.cursor => FlagsFresh(moved)

\* an overlay was set under a selection: one region straddles the lower end of the
\* selection and is active, another lies below it and is not
C6_Witness ==
    /\ last = "set_highlight_regions"
    /\ hex.selection_start # None
    /\ \E i, j \in DOMAIN hex.highlighted_regions :
          LET r == hex.highlighted_regions[i]
              q == hex.highlighted_regions[j]
              minaddr == Min(hex.cursor, hex.selection_start)
          IN  /\ r.active /\ r.addr < minaddr /\ minaddr <= r.addr + r.size - 1
              /\ ~q.active /\ q.addr + q.size - 1 < minaddr

(***************************************************************************)
(* SpecGeom: the address <-> (row, column) conversions on their own.       *)
(* A region is drawn at the start; each step converts one of its addresses *)
(* to (row, column) and back.                                              *)
(***************************************************************************)
GeomStart ==
    /\ hex = HexInit
    /\ view = ViewInit
    /\ patches = <<>>
    /\ scenario = ScenarioInit
    /\ edit = EditInit
    /\ jm = JmInit
    /\ last = "init"
    /\ \E start \in 0..GeomMaxStart, n \in 0..GeomMaxBytes :
          geom = [GeomInit EXCEPT !.start_addr = start, !.num_bytes = n]

GeomConvert ==
    \E a \in geom.start_addr..(geom.start_addr + geom.num_bytes - 1) :
        LET rc == addr_to_row_col(geom.start_addr, a)
        IN  /\ geom' = [geom EXCEPT !.converted = TRUE,
                                    !.addr = a,
                                    !.row = rc[1],
                                    !.col = rc[2],
                                    !.back = row_col_to_addr(geom.start_addr, rc[1], rc[2])]
            /\ last' = "convert"
            /\ UNCHANGED <<hex, view, patches, scenario, edit, jm>>

GeomNext == GeomConvert

SpecGeom == GeomStart /\ [][GeomNext]_vars

\* C3: for every address a with start_addr <= a < end_addr, addr_to_row_col followed
\* by row_col_to_addr returns a.
C3_RowColRoundTrip == geom.converted => geom.back = geom.addr

\* an address of the second row of a region that starts in the middle of a row,
\* in a column left of the column of start_addr
C3_Witness ==
    /\ geom.converted
    /\ geom.start_addr % 16 # 0
    /\ geom.row = 1
    /\ geom.col < geom.start_addr % 16

(***************************************************************************)
(* Spec: the HexView. The grid shows the loaded object                     *)
(* [LoaderMin, LoaderMin + LoaderSize) and is wired to the patch set.      *)
(***************************************************************************)
LoaderMin == 0

\* HexView.__init__: reload_cfb (the view's observer is connected after the region is
\* set) and _update_highlight_regions_from_patches, on an empty patch set
ViewStartWorld ==
    LET w0 == [hex |-> HexInit, view |-> ViewInit, heap |-> <<>>, pm |-> <<>>]
        w1 == set_data_callback(w0, LoaderMin, LoaderSize, ObsNone)
    IN  _update_highlight_regions_from_patches(w1)

Init ==
    /\ hex = ViewStartWorld.hex
    /\ view = [ViewStartWorld.view EXCEPT !.notifications = 0]
    /\ patches = <<>>
    /\ geom = GeomInit
    /\ edit = EditInit
    /\ jm = JmInit
    /\ scenario = ScenarioInit
    /\ last = "init"

\* how a write of new_bytes at addr meets the patches of the current state
TargetContained(addr, new_bytes) ==
    \E a \in DOMAIN patches :
        a <= addr /\ a + Len(patches[a]) - 1 >= addr + Len(new_bytes) - 1

TargetCovers(addr, new_bytes, a) ==
    /\ a \in DOMAIN patches
    /\ a >= addr
    /\ a + Len(patches[a]) - 1 <= addr + Len(new_bytes) - 1

TargetFollows(addr, a) ==
    /\ a \in DOMAIN patches
    /\ a < addr
    /\ a + Len(patches[a]) - 1 >= addr - 1

WriteKind(addr, new_bytes) ==
    IF TargetContained(addr, new_bytes) THEN "write_contained"
    ELSE IF \E a \in DOMAIN patches : TargetCovers(addr, new_bytes, a) THEN "write_covering"
    ELSE IF \E a \in DOMAIN patches : TargetFollows(addr, a) THEN "write_extending"
    ELSE "write_new"

ViewKeyMove ==
    \E name \in MovementKeyNames, shift \in BOOLEAN :
        Commit(keyPressEvent(World, [name |-> name, code |-> 0], shift, FALSE, EnvView),
               "key_move")

\* a hex digit typed in the byte column: a nibble edit
DigitCodes == {52}

ViewKeyDigit ==
    \E code \in DigitCodes :
        LET nibble == IF hex.cursor_nibble = None THEN 1 ELSE hex.cursor_nibble
            value == NibbleByte(project_memory_read_func(World, hex.cursor), nibble,
                                HexDigitValue(code))
        IN  Commit(keyPressEvent(World, [name |-> "Char", code |-> code], FALSE, FALSE, EnvView),
                   WriteKind(hex.cursor, <<value>>))

\* context menu: Copy, offered when bytes are selected
ViewCopy ==
    /\ get_selection(hex) # <<None>>
    /\ Commit(_copy_selected_bytes(World), "copy")

\* context menu: Paste, offered when the clipboard is set
ViewPaste ==
    /\ view.clipboard # <<>>
    /\ Commit(_paste_copied_bytes_at_cursor(World), WriteKind(hex.cursor, view.clipboard))

\* context menu of a patch region under the cursor: Split
ViewSplit ==
    \E i \in DOMAIN get_highlight_regions_under_cursor(hex) :
        LET r == get_highlight_regions_under_cursor(hex)[i]
        IN  /\ IsPatchRegion(r)
            /\ Commit(split(World, r), IF can_split(World, r) THEN "split" ELSE "split_refused")

\* context menu of a patch region under the cursor: Revert, confirmed
ViewRevert ==
    \E i \in DOMAIN get_highlight_regions_under_cursor(hex) :
        LET r == get_highlight_regions_under_cursor(hex)[i]
        IN  /\ IsPatchRegion(r)
            /\ Commit(revert(World, r), "revert")

\* context menu: Merge selected patches, enabled when some can be merged
ViewMergeSelected ==
    /\ Len(SelectedPatchRegions(World)) > 0
    /\ _can_merge_any_selected_patches(World)
    /\ Commit(_merge_selected_patches(World, FALSE).w, "merge_selected")

\* context menu: Revert selected patches, confirmed
ViewRevertSelected ==
    /\ Len(SelectedPatchRegions(World)) > 0
    /\ Commit(revert_selected_patches(World), "revert_selected")

Next ==
    \/ ViewKeyMove
    \/ ViewKeyDigit
    \/ ViewCopy
    \/ ViewPaste
    \/ ViewSplit
    \/ ViewRevert
    \/ ViewMergeSelected
    \/ ViewRevertSelected

Spec == Init /\ [][Next]_vars

(***************************************************************************)
(* Properties of the patch layer (Spec).                                   *)
(***************************************************************************)
\* the dict a world holds, keyed by address
DictOf(w) == [k \in DOMAIN w.pm |-> w.heap[w.pm[k]].new_bytes]

\* the writes the properties are checked for: every address of the loaded object and
\* around it, every string of 1..MaxWrite bytes over two values no patch holds yet
WriteAddrs == 0..(LoaderMin + LoaderSize + 1)
WriteStrings == UNION {[1..n -> {1, 2}] : n \in 1..MaxWrite}
Written(addr, new_bytes) == project_memory_write_bytearray(World, addr, new_bytes)[2]

\* C2: no two patches of the patch set cover a common address.
C2_PatchesDoNotOverlap ==
    \A a, b \in DOMAIN patches : a < b => a + Len(patches[a]) <= b

\* a write has just added a patch right below an existing one: two patches that touch
C2_Witness ==
    /\ last = "write_new"
    /\ \E a, b \in DOMAIN patches : a + Len(patches[a]) = b

\* C7: a write whose target range lies fully inside an existing patch leaves that patch's
\* address and length unchanged, replaces exactly the bytes at the target offsets,
\* leaves its other bytes and every other patch unchanged, and adds or removes no patch.
C7_ContainedWriteSplices ==
    \A addr \in WriteAddrs, new_bytes \in WriteStrings, a \in DOMAIN patches :
        (a <= addr /\ a + Len(patches[a]) - 1 >= addr + Len(new_bytes) - 1) =>
            LET w2 == Written(addr, new_bytes)
                after == DictOf(w2)
            IN  /\ DOMAIN after = DOMAIN patches
                /\ InDict(w2) = DOMAIN patches
                /\ w2.pm[a] = a
                /\ Len(after[a]) = Len(patches[a])
                /\ \A i \in 1..Len(patches[a]) :
                      after[a][i] = IF i > addr - a /\ i <= addr - a + Len(new_bytes)
                                    THEN new_bytes[i - (addr - a)]
                                    ELSE patches[a][i]
                /\ \A b \in DOMAIN patches \ {a} : after[b] = patches[b]

\* a byte was written inside a patch of several bytes
C7_Witness ==
    /\ last = "write_contained"
    /\ \E a \in DOMAIN patches : Len(patches[a]) >= 2

\* C8 as stated: a write whose target range covers an existing patch, the case of equal
\* ranges included, removes that patch record from the patch set.
\* Violated: with equal ranges the record stays and its bytes are replaced.
C8_CoveringWriteRemovesPatch ==
    \A addr \in WriteAddrs, new_bytes \in WriteStrings, a \in DOMAIN patches :
        TargetCovers(addr, new_bytes, a) => a \notin InDict(Written(addr, new_bytes))

\* C8, amended: a write whose target range covers an existing patch and is larger than
\* the patch's range removes that patch record from the patch set.
C8_LargerCoveringWriteRemovesPatch ==
    \A addr \in WriteAddrs, new_bytes \in WriteStrings, a \in DOMAIN patches :
        (TargetCovers(addr, new_bytes, a) /\ Len(new_bytes) > Len(patches[a]))
            => a \notin InDict(Written(addr, new_bytes))

\* a pasted string has just covered a shorter patch
C8_Witness ==
    /\ last = "write_covering"
    /\ \E a \in DOMAIN patches : Len(patches[a]) >= 2

C10_SplitPartitionsPatch ==
    \A a \in DOMAIN patches, c \in WriteAddrs :
        (a < c /\ c < a + Len(patches[a])) =>
            LET w == [World EXCEPT !.hex.cursor = c]
                w2 == split(w, PatchHighlightRegion(w, a))
                after == DictOf(w2)
            IN  /\ DOMAIN after = DOMAIN patches \cup {c}
                /\ w2.pm[a] = a /\ w2.pm[c] = NewPatch
                /\ after[a] = Slice(patches[a], 0, c - a)
                /\ after[c] = SliceFrom(patches[a], c - a)
                /\ after[a] \o after[c] = patches[a]
                /\ \A b \in DOMAIN patches \ {a} : after[b] = patches[b]

\* a patch has just been split in two at the cursor
C10_Witness ==
    /\ last = "split"
    /\ \E a \in DOMAIN patches :
          a < hex.cursor /\ a + Len(patches[a]) = hex.cursor /\ hex.cursor \in DOMAIN patches

\* C11: merge_with on the regions of two patches with other.addr = self.addr + self.size
\* leaves one patch at self.addr holding self's bytes followed by other's bytes and
\* removes other from the patch set; with other.addr # self.addr + self.size it changes
\* neither the patch set nor any patch's bytes and emits no change notification.
C11_MergeConcatenatesAdjacent ==
    \A a, b \in DOMAIN patches :
        LET r == PatchHighlightRegion(World, a)
            other == PatchHighlightRegion(World, b)
            w2 == merge_with(World, r, other)
            after == DictOf(w2)
        IN  IF other.addr = r.addr + r.size
            THEN /\ DOMAIN after = DOMAIN patches \ {b}
                 /\ w2.pm[a] = a
                 /\ after[a] = patches[a] \o patches[b]
                 /\ \A c \in DOMAIN patches \ {a, b} : after[c] = patches[c] /\ w2.pm[c] = c
            ELSE /\ after = patches
                 /\ w2.heap = World.heap
                 /\ w2.view.notifications = 0

\* two patches holding different bytes have just been merged into one
C11_Witness ==
    /\ last = "merge_selected"
    /\ view.notifications = 1
    /\ \E a \in DOMAIN patches : Len(patches[a]) = 2 /\ patches[a][1] # patches[a][2]

(***************************************************************************)
(* SpecScenario: the HexView over a loaded object of ScenarioSize bytes    *)
(* and an empty patch set, taken through: a write of `first` at addr, a    *)
(* write of `second` right above it, a jump to the first address of the    *)
(* second write, Split on the patch under the cursor, Shift+Left (which    *)
(* selects the byte on either side of the cut), Merge selected patches.    *)
(* The split address has to be one the grid displays.                      *)
(***************************************************************************)
ScenarioSize == 4

ScenarioStartWorld ==
    LET w0 == [hex |-> HexInit, view |-> ViewInit, heap |-> <<>>, pm |-> <<>>]
        w1 == set_data_callback(w0, LoaderMin, ScenarioSize, ObsNone)
    IN  _update_highlight_regions_from_patches(w1)

ScenarioStart ==
    /\ hex = ScenarioStartWorld.hex
    /\ view = [ScenarioStartWorld.view EXCEPT !.notifications = 0]
    /\ patches = <<>>
    /\ geom = GeomInit
    /\ edit = EditInit
    /\ jm = JmInit
    /\ last = "init"
    /\ \E addr \in LoaderMin..(LoaderMin + ScenarioSize - 1),
          first \in WriteStrings, second \in WriteStrings :
          /\ addr + Len(first) < LoaderMin + ScenarioSize
          /\ scenario = [addr |-> addr, first |-> first, second |-> second, stage |-> 0]

ScenarioCommit(w, op) ==
    /\ hex' = [w.hex EXCEPT !.highlighted_regions = CommitRegions(w, @)]
    /\ view' = [w.view EXCEPT !.patch_highlights = CommitRegions(w, @)]
    /\ patches' = [k \in DOMAIN w.pm |-> w.heap[w.pm[k]].new_bytes]
    /\ last' = op
    /\ scenario' = [scenario EXCEPT !.stage = @ + 1]
    /\ UNCHANGED <<geom, edit, jm>>

ScenarioWriteFirst ==
    /\ scenario.stage = 0
    /\ ScenarioCommit(
           project_memory_write_bytearray(World, scenario.addr, scenario.first)[2],
           "write_first")

ScenarioWriteSecond ==
    /\ scenario.stage = 1
    /\ ScenarioCommit(
           project_memory_write_bytearray(World, scenario.addr + Len(scenario.first),
                                          scenario.second)[2],
           "write_second")

ScenarioJump ==
    /\ scenario.stage = 2
    /\ ScenarioCommit(view_set_cursor(World, scenario.addr + Len(scenario.first)), "jump")

ScenarioSplit ==
    /\ scenario.stage = 3
    /\ \E i \in DOMAIN get_highlight_regions_under_cursor(hex) :
          LET r == get_highlight_regions_under_cursor(hex)[i]
          IN  /\ IsPatchRegion(r)
              /\ ScenarioCommit(split(World, r), "split")

ScenarioSelect ==
    /\ scenario.stage = 4
    /\ ScenarioCommit(
           keyPressEvent(World, [name |-> "Left", code |-> 0], TRUE, FALSE, EnvView),
           "select")

ScenarioMerge ==
    /\ scenario.stage = 5
    /\ Len(SelectedPatchRegions(World)) > 0
    /\ _can_merge_any_selected_patches(World)
    /\ ScenarioCommit(_merge_selected_patches(World, FALSE).w, "merge")

ScenarioNext ==
    \/ ScenarioWriteFirst
    \/ ScenarioWriteSecond
    \/ ScenarioJump
    \/ ScenarioSplit
    \/ ScenarioSelect
    \/ ScenarioMerge

SpecScenario == ScenarioStart /\ [][ScenarioNext]_vars

\* the patch set that holds exactly the patch {addr, bytes}
OnePatch(addr, bytes) == [k \in {addr} |-> bytes]

\* C12: from an empty patch set, writing n bytes at A leaves exactly the patch {A, n};
\* writing m bytes at A+n then leaves exactly the patch {A, n+m}; splitting with the
\* cursor at A+n leaves exactly the patches {A, n} and {A+n, m}; merging them leaves
\* exactly the patch {A, n+m} holding the written bytes in order.
C12_WriteExtendSplitMerge ==
    LET A == scenario.addr
        n == Len(scenario.first)
        both == scenario.first \o scenario.second
    IN  /\ scenario.stage = 0 => patches = <<>>
        /\ scenario.stage = 1 => patches = OnePatch(A, scenario.first)
        /\ scenario.stage \in {2, 3} => patches = OnePatch(A, both)
        /\ scenario.stage \in {4, 5} =>
              /\ DOMAIN patches = {A, A + n}
              /\ patches[A] = scenario.first
              /\ patches[A + n] = scenario.second
        /\ scenario.stage = 6 => patches = OnePatch(A, both)

\* the whole scenario was run with two writes of several bytes that differ
C12_Witness ==
    /\ scenario.stage = 6
    /\ last = "merge"
    /\ Len(scenario.first) = 2 /\ Len(scenario.second) = 2
    /\ scenario.first # scenario.second
    /\ scenario.addr > 0

(***************************************************************************)
(* Double click (SpecGrid).                                                *)
(***************************************************************************)
\* the overlays a double click is tried on: one region, two that overlap, two that
\* start at the same address, one that reaches past the end of the grid
ClickRegionLists ==
    RegionLists \cup
    {<<PlainRegion(0, MaxStart + MaxBytes), PlainRegion(1, 1)>>,
     <<PlainRegion(1, 1), PlainRegion(0, MaxStart + MaxBytes)>>,
     <<PlainRegion(1, 2), PlainRegion(1, 1)>>,
     <<PlainRegion(0, MaxStart + MaxBytes + 1)>>}

\* the grid with the overlay replaced, double-clicked
DoubleClicked(regions, obs) ==
    mouseDoubleClickEvent([World EXCEPT !.hex = set_highlight_regions(hex, regions)],
                          TRUE, Bare("accept", None, obs)).hex

SelectionIs(h, r) ==
    /\ h.selection_start # None
    /\ get_selection(h) = <<r.addr, r.addr + r.size - 1>>

\* C13 as stated: for every region r that contains the cursor, a double click ends
\* with the selection exactly [r.addr, r.addr + r.size - 1], whatever the selection
\* before and wherever r lies relative to the displayed range.
\* Violated: a region that reaches past end_addr, and the second of two regions
\* under the cursor.
C13_DoubleClickSelectsEveryRegion ==
    \A regions \in ClickRegionLists, obs \in GridObservers, i \in 1..2 :
        (/\ i \in DOMAIN regions
         /\ regions[i].addr <= hex.cursor
         /\ hex.cursor < regions[i].addr + regions[i].size)
            => SelectionIs(DoubleClicked(regions, obs), regions[i])

\* C13, amended: of the regions that contain the cursor, let r be the one whose start
\* address is nearest to the cursor (the first of the overlay among those with that
\* start address). If r lies inside the displayed range, a double click ends with the
\* selection exactly [r.addr, r.addr + r.size - 1], whatever the selection before.
C13_DoubleClickSelectsNearestRegion ==
    \A regions \in ClickRegionLists, obs \in GridObservers, i \in 1..2 :
        (/\ i \in DOMAIN regions
         /\ regions[i].addr <= hex.cursor
         /\ hex.cursor < regions[i].addr + regions[i].size
         /\ \A j \in DOMAIN regions :
               (regions[j].addr <= hex.cursor /\ hex.cursor < regions[j].addr + regions[j].size)
                   => \/ regions[j].addr < regions[i].addr
                      \/ regions[j].addr = regions[i].addr /\ i <= j
         /\ hex.start_addr <= regions[i].addr
         /\ regions[i].addr + regions[i].size <= hex.end_addr)
            => SelectionIs(DoubleClicked(regions, obs), regions[i])

\* a double click has selected a region of several bytes, the cursor at its start
C13_Witness ==
    /\ last = "mouse_double_click"
    /\ hex.selection_start # None
    /\ \E i \in DOMAIN hex.highlighted_regions :
          LET r == hex.highlighted_regions[i]
          IN  /\ r.size >= 2
              /\ hex.cursor = r.addr
              /\ hex.selection_start = r.addr + r.size - 1
              /\ get_selection(hex) = <<r.addr, r.addr + r.size - 1>>

\* C14: a set_cursor call made by an observer of cursor_changed while the outer
\* set_cursor is in progress is dropped: the outer move ends in the state it ends in
\* with an observer that does nothing (cursor, nibble, column and everything else),
\* whatever address, column and nibble the nested call asks for.
C14_NestedMoveDropped ==
    \A a \in MoveAddrs, n \in MoveAddrs, n_column \in {None, 0, 1}, n_nibble \in {None, 0, 1} :
        set_cursor(World, a, None, None, ObsNestedMove(n, n_column, n_nibble)).hex
            = set_cursor(World, a, None, None, ObsNone).hex

\* a move whose observer tried to move the cursor to address 0, which the grid
\* displays, has ended with the cursor where the outer move put it
C14_Witness ==
    /\ last = "set_cursor_nested"
    /\ hex.start_addr = 0
    /\ hex.cursor > 0
    /\ ~hex.processing_cursor_update

(***************************************************************************)
(* Inputs that aim outside the grid (SpecGrid).                            *)
(***************************************************************************)
Outside(h, addr) == addr < h.start_addr \/ addr >= h.end_addr

\* the cursor-and-selection state
CursorState(h) ==
    <<h.cursor, h.cursor_nibble, h.selection_start, h.ascii_column_active>>

\* the cursor state without the selection anchor
CursorOnly(h) == <<h.cursor, h.cursor_nibble, h.ascii_column_active>>

KeyMoved(name, shift, obs) ==
    keyPressEvent(World, [name |-> name, code |-> 0], shift, FALSE,
                  Bare("accept", None, obs)).hex

C16_RefusedWriteKeepsCursor ==
    \A obs \in GridObservers, read \in ReadValues :
        LET env == Bare("refuse", read, obs)
        IN  /\ \A value \in {52, 122} : _set_byte_value(World, value, env).hex = hex
            /\ \A value \in {0, 4, 15} : _set_nibble_value(World, value, env).hex = hex
            /\ \A code \in CharCodes :
                  keyPressEvent(World, [name |-> "Char", code |-> code],
                                FALSE, FALSE, env).hex = hex

\* a digit was typed in the middle of a byte (low nibble next) and the write refused
C16_Witness ==
    /\ last = "key_char_refused"
    /\ hex.cursor_nibble = 0
    /\ ~hex.ascii_column_active
    /\ hex.num_bytes > 0

(***************************************************************************)
(* Points and addresses (SpecGrid).                                        *)
(***************************************************************************)
\* the points tried: x across the address gutter, the byte columns and the ascii
\* columns, y from more than a row above the grid to below its second row
ProbeXs == {x \in 0..(ascii_column_offsets[17] + 1) : x % 3 = 1} \cup {0}
ProbeYs == (-(row_height + 1))..(2 * row_height + 1)

\* C17 as stated: point_to_addr returns no address outside [start_addr, end_addr);
\* a point above the first row (y < 0) and a point below the last row resolve to no
\* address. Violated: int() truncates toward zero, so a point less than one row
\* height above the grid is taken for a point of row 0.
C17_PointsOutsideResolveToNothing ==
    \A x \in ProbeXs, y \in ProbeYs :
        LET hit == point_to_addr(hex, <<x, y>>)
        IN  /\ hit # <<>> => hex.start_addr <= hit[1] /\ hit[1] < hex.end_addr
            /\ (y < 0 \/ y >= hex.num_rows * row_height) => hit = <<>>

\* the patch overlays the view holds are those of the patch set: the last change
\* notification came after the last change of the patch set
OverlaysCurrent(v, p) ==
    /\ Len(v.patch_highlights) = Cardinality(DOMAIN p)
    /\ {<<v.patch_highlights[i].addr, v.patch_highlights[i].size>> :
            i \in DOMAIN v.patch_highlights}
       = {<<a, Len(p[a])>> : a \in DOMAIN p}

\* C18 as stated: every user-level operation that changes the patch set (a byte or
\* nibble write, a paste, a split, a merge of the selected patches, a revert of the
\* selected patches) emits exactly one change notification. Violated: reverting two
\* selected patches emits one notification per patch.
C18_OneNotificationPerOperation ==
    [][patches' # patches => view'.notifications = 1]_vars

\* C18, amended: an operation that changes the patch set emits at least one change
\* notification, and the last one after all its changes of the patch set, so the
\* overlays are those of the final patch set; a write, a paste, a split and the revert
\* of one patch emit exactly one; a revert of the selected patches emits one for every
\* selected patch, each of which it removes; a merge of the selected patches emits one
\* for every merge it performs, at least one for every patch it removes.
C18_NotificationPerPatchSetChange ==
    [][patches' # patches =>
          /\ view'.notifications >= 1
          /\ OverlaysCurrent(view', patches')
          /\ last' \notin {"merge_selected", "revert_selected"} => view'.notifications = 1
          /\ last' = "revert_selected" =>
                 /\ view'.notifications = Len(SelectedPatchRegions(World))
                 /\ view'.notifications
                        = Cardinality(DOMAIN patches) - Cardinality(DOMAIN patches')
          /\ last' = "merge_selected" =>
                 view'.notifications
                     >= Cardinality(DOMAIN patches) - Cardinality(DOMAIN patches')]_vars

\* two selected patches were reverted by one operation, with two notifications
C18_Witness ==
    /\ last = "revert_selected"
    /\ view.notifications = 2
    /\ patches = <<>>

\* C19 as stated: in every reachable state, after each completed operation (a cursor
\* move, begin_selection, clear_selection, a key or mouse event, a replacement of the
\* overlay list), each region's active flag equals the overlap test against the current
\* cursor/selection range, also after the selection is begun or cleared without the
\* cursor address changing. Violated: begin_selection and clear_selection do not
\* recompute the flags, and set_cursor recomputes them only when the cursor changed.
C19_FlagsAlwaysFresh ==
    FlagsFresh(hex)

\* the patches of a dict that cover address x
Covering(d, x) == {a \in DOMAIN d : a <= x /\ x < a + Len(d[a])}

\* the addresses the byte view is compared at: the loaded object, every write's
\* range, and one address past the longest
ViewAddrs == 0..(LoaderMin + LoaderSize + 1 + MaxWrite)

\* C20: for any write (addr, new_bytes) with new_bytes non-empty on a non-overlapping
\* patch set, the patched byte view afterwards is the view before overridden by
\* new_bytes on the target range: every address x of the range is covered by exactly
\* one patch and reads new_bytes[x - addr]; every address outside keeps its
\* covered/not-covered status and its patched byte value.
C20_WriteOverridesTargetRange ==
    \A addr \in WriteAddrs, new_bytes \in WriteStrings :
        LET done == project_memory_write_bytearray(World, addr, new_bytes)
            w2 == done[2]
            after == DictOf(w2)
        IN  /\ done[1]
            /\ InDict(w2) = {w2.pm[k] : k \in DOMAIN after}
            /\ \A k \in DOMAIN after : w2.heap[w2.pm[k]].addr = k
            /\ \A x \in ViewAddrs :
                  IF addr <= x /\ x < addr + Len(new_bytes)
                  THEN /\ Cardinality(Covering(after, x)) = 1
                       /\ project_memory_read_func(w2, x) = new_bytes[x - addr + 1]
                  ELSE /\ (Covering(after, x) = {}) <=> (Covering(patches, x) = {})
                       /\ Cardinality(Covering(after, x)) <= 1
                       /\ project_memory_read_func(w2, x) = project_memory_read_func(World, x)

\* two bytes were pasted at the last address of the loaded object, right above or onto
\* the upper part of the patch at 0: one patch is left, and the target reads the
\* pasted bytes
C20_Witness ==
    /\ last = "write_extending"
    /\ view.notifications = 1
    /\ hex.cursor = LoaderMin + 1
    /\ Len(view.clipboard) = 2
    /\ DOMAIN patches = {LoaderMin}
    /\ Len(patches[LoaderMin]) = 3
    /\ \A k \in 1..2 : project_memory_read_func(World, hex.cursor + k - 1) = view.clipboard[k]

\* the four cases of the overlap resolution, for a patch [pa, pmax] and a target
\* [addr, max_addr]
OverlapCase(pa, pmax, addr, max_addr) ==
    IF pa <= addr /\ pmax >= max_addr THEN "containment"
    ELSE IF pa >= addr /\ pmax <= max_addr THEN "full overwrite"
    ELSE IF pa >= addr /\ pmax > max_addr THEN "left overlap"
    ELSE IF pa < addr /\ pmax <= max_addr THEN "right overlap"
    ELSE "other"

\* C21: the fail-fast branch of the overlap resolution is never reached: for every
\* write against the patch set, each patch returned by the overlap query falls into
\* one of the four cases containment, full overwrite, left overlap, right overlap, and
\* the write runs to its end without the failed assertion.
C21_FailFastNeverReached ==
    /\ ~view.assert_failed
    /\ \A addr \in WriteAddrs, new_bytes \in WriteStrings :
          LET todo == get_all_patches(World, addr, Len(new_bytes))
          IN  /\ ~auto_patch(World, addr, new_bytes).failed
              /\ \A i \in DOMAIN todo :
                    OverlapCase(todo[i], todo[i] + Len(patches[todo[i]]) - 1,
                                addr, addr + Len(new_bytes) - 1) # "other"

\* the high nibble of the middle byte of a three-byte patch was written: the patch
\* starts below the write and ends above it
C21_Witness ==
    /\ last = "write_contained"
    /\ ~view.assert_failed
    /\ hex.cursor = LoaderMin + 1
    /\ hex.cursor_nibble = 0
    /\ LoaderMin \in DOMAIN patches
    /\ Len(patches[LoaderMin]) = 3

\* the world auto_patch has when its loop over the intersecting patches is done
AfterIntersections(addr, new_bytes) ==
    LET todo == get_all_patches(World, addr, Len(new_bytes))
        RECURSIVE Loop(_, _)
        Loop(acc, i) ==
            IF i > Len(todo) THEN acc
            ELSE Loop(auto_patch_step(acc, todo[i], addr, new_bytes), i + 1)
    IN  Loop([w |-> World, returned |-> FALSE, failed |-> FALSE], 1)

\* C22: in a write that is not fully contained in an existing patch, after the
\* intersecting patches are processed: if the address addr - 1 belongs to a patch, that
\* patch ends exactly at addr - 1, new_bytes is appended to it and no new patch is
\* created; otherwise exactly one new patch {addr, new_bytes} is added.
C22_ExtendBelowOrAddNew ==
    \A addr \in WriteAddrs, new_bytes \in WriteStrings :
        LET mid == AfterIntersections(addr, new_bytes)
            before == DictOf(mid.w)
            holders == Covering(before, addr - 1)
            w2 == auto_patch(World, addr, new_bytes).w
            after == DictOf(w2)
        IN  ~TargetContained(addr, new_bytes) =>
              /\ ~mid.returned /\ ~mid.failed
              /\ Cardinality(holders) <= 1
              /\ \A a \in holders :
                    /\ a + Len(before[a]) - 1 = addr - 1
                    /\ DOMAIN after = DOMAIN before
                    /\ NewPatch \notin InDict(w2)
                    /\ w2.pm[a] = mid.w.pm[a]
                    /\ after[a] = before[a] \o new_bytes
                    /\ \A b \in DOMAIN before \ {a} : after[b] = before[b]
              /\ holders = {} =>
                    /\ addr \notin DOMAIN before
                    /\ DOMAIN after = DOMAIN before \cup {addr}
                    /\ w2.pm[addr] = NewPatch
                    /\ after[addr] = new_bytes
                    /\ \A b \in DOMAIN before : after[b] = before[b] /\ w2.pm[b] = mid.w.pm[b]

\* a digit typed at the first address, with a patch right above it and none below:
\* a new patch was added next to the one above
C22_Witness ==
    /\ last = "write_new"
    /\ hex.cursor = LoaderMin
    /\ hex.cursor_nibble = 0
    /\ DOMAIN patches = {LoaderMin, LoaderMin + 1}
    /\ Len(patches[LoaderMin]) = 1

\* the pairs of directly adjacent patches of a dict: the second starts at the address
\* one past the first one's last address
AdjacentPairs(d) == {pair \in (DOMAIN d) \X (DOMAIN d) : pair[1] + Len(d[pair[1]]) = pair[2]}

\* C23 as stated: if no two patches are directly adjacent before a write, no two
\* patches are directly adjacent after it, on either side of the written bytes.
\* Violated: a write that ends right below a patch, or that overwrites the lower part
\* of a patch, leaves the patch holding the new bytes directly below that patch.
C23_WriteLeavesNoAdjacency ==
    \A addr \in WriteAddrs, new_bytes \in WriteStrings :
        AdjacentPairs(patches) = {} =>
            AdjacentPairs(DictOf(Written(addr, new_bytes))) = {}

\* C23, amended: if no two patches are directly adjacent before a write, then after it
\* the patch holding the new bytes has no patch directly below it (a patch that held
\* addr - 1 has absorbed the write); the only adjacency a write can leave is between
\* the patch holding the new bytes, which then ends at the write's last address, and a
\* patch that starts right above the write's last address.
C23_WriteLeavesNoAdjacencyBelow ==
    \A addr \in WriteAddrs, new_bytes \in WriteStrings :
        AdjacentPairs(patches) = {} =>
            LET after == DictOf(Written(addr, new_bytes))
            IN  \A pair \in AdjacentPairs(after) :
                    /\ pair[2] = addr + Len(new_bytes)
                    /\ pair[1] <= addr

\* two bytes were pasted at the first address over the lower part of a patch that
\* started at the second: the pasted patch lies directly below what is left of it
C23_Witness ==
    /\ last = "write_new"
    /\ hex.cursor = LoaderMin
    /\ Len(view.clipboard) = 2
    /\ DOMAIN patches = {LoaderMin, LoaderMin + 2}
    /\ patches[LoaderMin] = view.clipboard

\* split of the patch at a with the cursor at c
SplitAt(a, c) ==
    LET w == [World EXCEPT !.hex.cursor = c]
    IN  split(w, PatchHighlightRegion(w, a))

\* split changed nothing and told no one
SplitRefused(a, c) ==
    LET w2 == SplitAt(a, c)
    IN  /\ DictOf(w2) = patches
        /\ w2.pm = World.pm
        /\ w2.heap = World.heap
        /\ w2.view.notifications = 0

\* C24 as stated: split takes effect only with the cursor strictly inside the patch, on
\* neither endpoint; with the cursor on the patch's first address, on its last address
\* or outside the patch it changes nothing and emits no change notification.
\* Violated: with the cursor on the last address of a patch of two or more bytes the
\* patch is split.
C24_SplitRefusedOnEndpoints ==
    \A a \in DOMAIN patches, c \in WriteAddrs :
        (c <= a \/ c >= a + Len(patches[a]) - 1) => SplitRefused(a, c)

\* C24, amended: split takes effect exactly when addr < cursor < addr + len, that is
\* with the cursor on any address of the patch but the first, the last one included:
\* then the patch set changes and one change notification is emitted; with the cursor
\* on the patch's first address or outside the patch it changes neither the patch set
\* nor any patch's bytes and emits no change notification.
C24_SplitRefusedOnFirstAndOutside ==
    \A a \in DOMAIN patches, c \in WriteAddrs :
        IF a < c /\ c <= a + Len(patches[a]) - 1
        THEN LET w2 == SplitAt(a, c)
             IN  /\ DictOf(w2) # patches
                 /\ DOMAIN DictOf(w2) = DOMAIN patches \cup {c}
                 /\ w2.view.notifications = 1
        ELSE SplitRefused(a, c)

\* a patch was split with the cursor on its last address: the upper half holds one byte
C24_Witness ==
    /\ last = "split"
    /\ view.notifications = 1
    /\ hex.cursor \in DOMAIN patches
    /\ Len(patches[hex.cursor]) = 1
    /\ \E a \in DOMAIN patches : a < hex.cursor /\ a + Len(patches[a]) = hex.cursor

\* the overlay lists an observer of cursor_changed installs when it is told
ObservedLists == RegionLists \ {<<>>}

\* the grid after the move set_cursor(addr) when an observer that installs the
\* overlay list regions is connected
MovedObserved(addr, regions) == set_cursor(World, addr, None, None, ObsRegions(regions)).hex

\* the grid after the move set_cursor(addr) with no observer connected
MovedAlone(addr) == set_cursor(World, addr, None, None, ObsNone).hex

\* C25 as stated: on an accepted move the active flags are recomputed and the observers
\* receive the cursor-changed event when the cursor address changed, and only then: an
\* accepted move to the address the cursor is on notifies no observer.
\* Violated: cursor_changed is emitted on every accepted move.
C25_SameAddressMoveNotifiesNoObserver ==
    \A regions \in ObservedLists :
        CursorInBounds(hex) =>
            MovedObserved(hex.cursor, regions).highlighted_regions = hex.highlighted_regions

\* C25, amended: on every accepted move the observers receive the cursor-changed event,
\* also when the move is to the address the cursor is on; the active flags are
\* recomputed by the move itself when the cursor address changed, and only then.
C25_EveryAcceptedMoveNotifies ==
    \A addr \in GridAddrs :
        (hex.start_addr <= addr /\ addr < hex.end_addr) =>
            /\ \A regions \in ObservedLists :
                  MovedObserved(addr, regions).highlighted_regions
                      = set_highlight_regions([hex EXCEPT !.cursor = addr],
                                              regions).highlighted_regions
            /\ IF addr # hex.cursor
               THEN FlagsFresh(MovedAlone(addr))
               ELSE MovedAlone(addr).highlighted_regions = hex.highlighted_regions

\* an accepted move to the address the cursor was on: the observer was told and has
\* installed its overlay list
C25_Witness ==
    /\ last = "set_cursor_same"
    /\ CursorInBounds(hex)
    /\ Len(hex.highlighted_regions) = 1
    /\ hex.highlighted_regions[1].addr = 1
    /\ hex.highlighted_regions[1].size = MaxRegionSize

\* the grid after a full-byte edit whose write is accepted
ByteEdited(value, read, obs) == _set_byte_value(World, value, Bare("accept", read, obs)).hex

\* C26 as stated: every successful full-byte edit at any cursor address in
\* [start_addr, end_addr) advances the cursor by exactly 1.
\* Violated: on the last address the move to end_addr is rejected and the cursor stays.
C26_ByteEditAdvancesCursor ==
    \A value \in {52, 122}, read \in ReadValues, obs \in GridObservers :
        CursorInBounds(hex) => ByteEdited(value, read, obs).cursor = hex.cursor + 1

\* C26, amended: every successful full-byte edit at a cursor address in
\* [start_addr, end_addr - 1) advances the cursor by exactly 1 and leaves no nibble
\* pending; on the last address end_addr - 1 the byte is written and the cursor, with
\* its nibble, stays where it is.
C26_ByteEditAdvancesCursorButLast ==
    \A value \in {52, 122}, read \in ReadValues, obs \in GridObservers :
        CursorInBounds(hex) =>
            IF hex.cursor < hex.end_addr - 1
            THEN /\ ByteEdited(value, read, obs).cursor = hex.cursor + 1
                 /\ ByteEdited(value, read, obs).cursor_nibble = None
            ELSE /\ ByteEdited(value, read, obs).cursor = hex.cursor
                 /\ ByteEdited(value, read, obs).cursor_nibble = hex.cursor_nibble

\* a character typed in the ascii column below the last address has moved the cursor
\* on, to an address above the first
C26_Witness ==
    /\ last = "key_byte"
    /\ hex.ascii_column_active
    /\ hex.cursor > hex.start_addr
    /\ hex.cursor < hex.end_addr
    /\ hex.cursor_nibble = None

\* the hex digits typed: '4' and 'a'
TypedDigits == {52, 97}

\* the world after a hex digit is typed in the view
Typed(w, code) == keyPressEvent(w, [name |-> "Char", code |-> code], FALSE, FALSE, EnvView)

\* the byte the view shows at addr
Shown(w, addr) == project_memory_read_func(w, addr)

\* the cursor is on a byte whose high nibble is the next one typed
AtHighNibble(h) == CursorInBounds(h) /\ ~h.ascii_column_active /\ h.cursor_nibble # 0

\* the first digit at a byte: the high nibble is written, the address stays, the low
\* nibble is next
FirstDigitWritesHigh(c1) ==
    LET c == hex.cursor
        w1 == Typed(World, c1)
    IN  /\ Shown(w1, c) = HexDigitValue(c1) * 16 + (Shown(World, c) % 16)
        /\ w1.hex.cursor = c
        /\ w1.hex.cursor_nibble = 0

\* the second digit: the low nibble of the same byte is written
SecondDigitWritesLow(c1, c2) ==
    LET c == hex.cursor
        w2 == Typed(Typed(World, c1), c2)
    IN  Shown(w2, c) = HexDigitValue(c1) * 16 + HexDigitValue(c2)

\* after the second digit the cursor is on the next byte, and a third digit writes
\* that byte's high nibble
ThirdDigitWritesNextByte(c1, c2, c3) ==
    LET c == hex.cursor
        w2 == Typed(Typed(World, c1), c2)
        w3 == Typed(w2, c3)
    IN  /\ w2.hex.cursor = c + 1
        /\ w2.hex.cursor_nibble = 1
        /\ Shown(w3, c + 1) = HexDigitValue(c3) * 16 + (Shown(w2, c + 1) % 16)
        /\ Shown(w3, c) = Shown(w2, c)
        /\ w3.hex.cursor = c + 1
        /\ w3.hex.cursor_nibble = 0

\* C27 as stated: successive digit entries alternate between the high and the low
\* nibble: the first digit at a byte writes the high nibble, leaves the address and
\* sets cursor_nibble to the low nibble; the next writes the low nibble of the same
\* byte and advances the address by 1, so that the following digit writes the high
\* nibble of the next byte; at every cursor address in [start_addr, end_addr).
\* Violated: on the last address the cursor cannot advance and stays on the low nibble.
C27_DigitsAlternateEverywhere ==
    \A c1 \in TypedDigits, c2 \in TypedDigits, c3 \in TypedDigits :
        AtHighNibble(hex) =>
            /\ FirstDigitWritesHigh(c1)
            /\ SecondDigitWritesLow(c1, c2)
            /\ ThirdDigitWritesNextByte(c1, c2, c3)

\* C27, amended: the first digit at a byte writes the high nibble, leaves the address
\* and sets cursor_nibble to the low nibble; the next digit writes the low nibble of
\* the same byte; at a cursor address in [start_addr, end_addr - 1) it then advances
\* the address by 1 and the following digit writes the high nibble of the next byte;
\* on the last address end_addr - 1 the cursor stays on the low nibble of that byte,
\* and the following digit overwrites the low nibble again.
C27_DigitsAlternateButLast ==
    \A c1 \in TypedDigits, c2 \in TypedDigits, c3 \in TypedDigits :
        AtHighNibble(hex) =>
            /\ FirstDigitWritesHigh(c1)
            /\ SecondDigitWritesLow(c1, c2)
            /\ IF hex.cursor < hex.end_addr - 1
               THEN ThirdDigitWritesNextByte(c1, c2, c3)
               ELSE LET c == hex.cursor
                        w2 == Typed(Typed(World, c1), c2)
                        w3 == Typed(w2, c3)
                    IN  /\ w2.hex.cursor = c /\ w2.hex.cursor_nibble = 0
                        /\ w3.hex.cursor = c /\ w3.hex.cursor_nibble = 0
                        /\ Shown(w3, c) = HexDigitValue(c1) * 16 + HexDigitValue(c3)

\* two digits were typed at the first byte: it reads 0x44 and the cursor is on the high
\* nibble of the second byte
C27_Witness ==
    /\ last \in {"write_contained", "write_new", "write_extending", "write_covering"}
    /\ hex.cursor = LoaderMin + 1
    /\ hex.cursor_nibble = 1
    /\ Shown(World, LoaderMin) = 68

(***************************************************************************)
(* SpecKeys: a grid of KeysSize bytes, large enough for every movement key *)
(* to have a target inside it, driven by the movement keys and the mouse.  *)
(***************************************************************************)
KeysSize == 130

KeysStart ==
    /\ hex = set_data([hex |-> HexInit, view |-> ViewInit, heap |-> <<>>, pm |-> <<>>],
                      0, KeysSize, ObsNone).hex
    /\ view = ViewInit
    /\ patches = <<>>
    /\ geom = GeomInit
    /\ edit = EditInit
    /\ jm = JmInit
    /\ scenario = ScenarioInit
    /\ last = "init"

\* an arrow or page key, with or without Shift
KeysMove ==
    \E name \in MovementKeyNames, shift \in BOOLEAN :
        Commit(keyPressEvent(World, [name |-> name, code |-> 0], shift, FALSE,
                             Bare("accept", None, ObsNone)),
               IF shift THEN "key_shift" ELSE "key_plain")

\* a press of the left button on a cell of the first or second row
KeysMousePress ==
    \E pt \in Points :
        Commit(mousePressEvent(World, TRUE, pt, FALSE, Bare("accept", None, ObsNone)),
               "mouse_press")

\* a drag with the button held
KeysMouseMove ==
    \E pt \in Points :
        Commit(mouseMoveEvent(World, pt, Bare("accept", None, ObsNone)), "mouse_move")

KeysMouseRelease ==
    Commit(mouseReleaseEvent(World, TRUE), "mouse_release")

KeysNext ==
    \/ KeysMove
    \/ KeysMousePress
    \/ KeysMouseMove
    \/ KeysMouseRelease

SpecKeys == KeysStart /\ [][KeysNext]_vars

\* the byte deltas of the arrow and page keys
KeyDelta(name) ==
    CASE name = "Up" -> -16
      [] name = "Down" -> 16
      [] name = "Left" -> -1
      [] name = "Right" -> 1
      [] name = "PageUp" -> -128
      [] name = "PageDown" -> 128

\* where a move by delta takes the cursor of h: to cursor + delta, or nowhere when
\* that is outside [start_addr, end_addr)
KeyTarget(h, name) ==
    IF h.start_addr <= h.cursor + KeyDelta(name) /\ h.cursor + KeyDelta(name) < h.end_addr
    THEN h.cursor + KeyDelta(name) ELSE h.cursor

KeyPressed(w, name, shift) ==
    keyPressEvent(w, [name |-> name, code |-> 0], shift, FALSE, Bare("accept", None, ObsNone))

\* two moves in a row with the modifier held keep the anchor at anchor, and each
\* moves the cursor by its key's delta; a move without the modifier leaves no anchor
KeysSelect(anchor) ==
    \A n1 \in MovementKeyNames, n2 \in MovementKeyNames :
        LET w1 == KeyPressed(World, n1, TRUE)
            w2 == KeyPressed(w1, n2, TRUE)
            w3 == KeyPressed(w2, n1, FALSE)
        IN  /\ w1.hex.selection_start = anchor
            /\ w1.hex.cursor = KeyTarget(hex, n1)
            /\ w2.hex.selection_start = anchor
            /\ w2.hex.cursor = KeyTarget(w1.hex, n2)
            /\ w3.hex.selection_start = None
            /\ w3.hex.cursor = KeyTarget(w2.hex, n1)
            /\ KeyPressed(World, n1, FALSE).hex.selection_start = None
            /\ KeyPressed(World, n1, FALSE).hex.cursor = KeyTarget(hex, n1)

\* C28 as stated: across consecutive arrow/page moves made with the range-extend
\* modifier held, the selection anchor stays at the cursor address from before the
\* first of those moves; any arrow/page move made without the modifier ends with no
\* anchor; the byte deltas are -16/+16, -1/+1 and -128/+128.
\* Violated: when a selection is already active before the first of those moves (after
\* a drag), its anchor is kept.
C28_AnchorIsCursorBeforeFirstMove ==
    last # "key_shift" => KeysSelect(hex.cursor)

\* C28, amended: across consecutive arrow/page moves made with the modifier held, the
\* anchor stays at the cursor address from before the first of those moves when no
\* selection was active then, and at the anchor already set otherwise; any arrow/page
\* move made without the modifier ends with no anchor; the byte deltas are -16/+16 for
\* up/down, -1/+1 for left/right and -128/+128 for page up/down, and a move whose
\* target is outside the grid leaves the cursor where it is.
C28_AnchorKeptAcrossModifierMoves ==
    KeysSelect(IF hex.selection_start = None THEN hex.cursor ELSE hex.selection_start)

\* Shift+PageDown and Shift+Right from the first address: the anchor is the first
\* address, the cursor 129 bytes on
C28_Witness ==
    /\ last = "key_shift"
    /\ hex.selection_start = 0
    /\ hex.cursor = 128 + 1

\* HexView.contextMenuEvent: the submenus of the regions under the cursor, in the order
\* of the loop over get_highlight_regions_under_cursor(); a region without a submenu
\* (gen_context_menu_actions returns None) adds nothing
contextMenuEvent(w) ==
    SelectSeq(get_highlight_regions_under_cursor(w.hex), IsPatchRegion)

\* the positions in the overlay list of the regions that hold the cursor, ascending
UnderCursorPositions(h) ==
    LET hits == {i \in DOMAIN h.highlighted_regions :
                    /\ h.highlighted_regions[i].addr <= h.cursor
                    /\ h.cursor < h.highlighted_regions[i].addr
                                  + h.highlighted_regions[i].size}
        RECURSIVE Ascending(_)
        Ascending(S) ==
            IF S = {} THEN <<>>
            ELSE LET m == CHOOSE i \in S : \A j \in S : i <= j
                 IN  <<m>> \o Ascending(S \ {m})
    IN  Ascending(hits)

\* the lookup returns exactly the regions holding the cursor, in overlay-list order
LookupInListOrder(h) ==
    LET found == get_highlight_regions_under_cursor(h)
        at == UnderCursorPositions(h)
    IN  /\ Len(found) = Len(at)
        /\ \A k \in DOMAIN found : found[k] = h.highlighted_regions[at[k]]

\* a sequence of regions is in ascending order of cursor - addr
NearestFirst(rs, cursor) ==
    \A i \in DOMAIN rs, j \in DOMAIN rs : i < j => cursor - rs[i].addr <= cursor - rs[j].addr

\* C29 as stated: the lookup under the cursor returns exactly the regions r with
\* r.addr <= cursor < r.addr + r.size, ordered nearest-start-first, for the context menu
\* as for the double-click.
\* Violated: the lookup returns them in overlay-list order; only the double-click
\* sorts them.
C29_LookupOrderedNearestFirst ==
    /\ LookupInListOrder(hex)
    /\ NearestFirst(get_highlight_regions_under_cursor(hex), hex.cursor)

\* C29, amended: the lookup under the cursor returns exactly the regions r with
\* r.addr <= cursor < r.addr + r.size, in the order of the overlay list; the context
\* menu takes them in that order (a submenu for each patch region among them); the
\* double-click sorts them nearest-start-first, ties in list order, and selects the
\* first.
C29_LookupInListOrderSortedByDoubleClick ==
    LET found == get_highlight_regions_under_cursor(hex)
        sorted == SortedNearestFirst(found, hex.cursor)
    IN  /\ LookupInListOrder(hex)
        /\ \A k \in DOMAIN contextMenuEvent(World) :
              \E i \in DOMAIN found :
                  /\ found[i] = contextMenuEvent(World)[k]
                  /\ IsPatchRegion(found[i])
                  /\ Cardinality({j \in 1..i : IsPatchRegion(found[j])}) = k
        /\ Len(contextMenuEvent(World))
               = Cardinality({i \in DOMAIN found : IsPatchRegion(found[i])})
        /\ Len(sorted) = Len(found)
        /\ \A r \in {found[i] : i \in DOMAIN found} :
              Cardinality({i \in DOMAIN found : found[i] = r})
                  = Cardinality({i \in DOMAIN sorted : sorted[i] = r})
        /\ NearestFirst(sorted, hex.cursor)
        /\ found # <<>> =>
              LET w2 == mouseDoubleClickEvent(World, TRUE, EnvView)
              IN  /\ w2.hex.cursor = sorted[1].addr
                  /\ sorted[1].addr + sorted[1].size - 1 < hex.end_addr =>
                        w2.hex.selection_start = sorted[1].addr + sorted[1].size - 1

\* the cursor is on a patch that starts inside a classified item: the lookup returns
\* the item first and the patch, whose start is nearer, second
C29_Witness ==
    /\ Len(get_highlight_regions_under_cursor(hex)) = 2
    /\ ~IsPatchRegion(get_highlight_regions_under_cursor(hex)[1])
    /\ IsPatchRegion(get_highlight_regions_under_cursor(hex)[2])
    /\ get_highlight_regions_under_cursor(hex)[1].addr < hex.cursor
    /\ get_highlight_regions_under_cursor(hex)[2].addr = hex.cursor

\* the patch regions of the grid's overlay list, in order
GridPatchRegions(h) == SelectSeq(h.highlighted_regions, IsPatchRegion)

\* the addresses of the patch set, ascending
PatchAddrs ==
    LET RECURSIVE Ascending(_)
        Ascending(S) ==
            IF S = {} THEN <<>>
            ELSE LET m == CHOOSE a \in S : \A b \in S : a <= b
                 IN  <<m>> \o Ascending(S \ {m})
    IN  Ascending(DOMAIN patches)

\* C30: after every completed patch operation performed through the view (write,
\* paste, split, merge, revert), the patch-derived highlight regions correspond
\* one-to-one to the patches of the patch set, and each such region's addr and size
\* equal its patch's current start address and byte length; the grid's overlay list
\* holds the same patch regions.
C30_PatchRegionsMatchPatches ==
    /\ Len(view.patch_highlights) = Len(PatchAddrs)
    /\ \A i \in DOMAIN view.patch_highlights :
          LET r == view.patch_highlights[i]
          IN  /\ r.patch = PatchAddrs[i]
              /\ r.addr = PatchAddrs[i]
              /\ r.size = Len(patches[PatchAddrs[i]])
              /\ r.size > 0
    /\ Len(GridPatchRegions(hex)) = Len(view.patch_highlights)
    /\ \A i \in DOMAIN GridPatchRegions(hex) :
          LET g == GridPatchRegions(hex)[i]
              r == view.patch_highlights[i]
          IN  g.patch = r.patch /\ g.addr = r.addr /\ g.size = r.size

\* two patches were merged: one patch region of two bytes stands for the one patch left
C30_Witness ==
    /\ last = "merge_selected"
    /\ Len(view.patch_highlights) = 1
    /\ view.patch_highlights[1].size = 2
    /\ Len(GridPatchRegions(hex)) = 1

\* C31: after any sequence of non-empty writes, pastes, splits, merges and reverts
\* through the view, every patch of the patch set holds at least one byte, so every
\* patch highlight region has size > 0; and every further non-empty write and every
\* split leaves it so.
C31_PatchesHoldBytes ==
    /\ \A a \in DOMAIN patches : Len(patches[a]) >= 1
    /\ \A i \in DOMAIN hex.highlighted_regions : hex.highlighted_regions[i].size > 0
    /\ \A i \in DOMAIN view.patch_highlights : view.patch_highlights[i].size > 0
    /\ \A addr \in WriteAddrs, new_bytes \in WriteStrings :
          LET after == DictOf(Written(addr, new_bytes))
          IN  \A a \in DOMAIN after : Len(after[a]) >= 1
    /\ \A a \in DOMAIN patches, c \in WriteAddrs :
          LET after == DictOf(SplitAt(a, c))
          IN  \A b \in DOMAIN after : Len(after[b]) >= 1

\* two bytes were pasted at the second address, above or onto the upper part of the
\* patch at the first: the one patch left holds three bytes, and so does its region
C31_Witness ==
    /\ last = "write_extending"
    /\ Len(view.clipboard) = 2
    /\ hex.cursor = LoaderMin + 1
    /\ DOMAIN patches = {LoaderMin}
    /\ SliceFrom(patches[LoaderMin], 1) = view.clipboard
    /\ view.patch_highlights[1].size = 3

\* C32: for a zero-length region (num_bytes = 0, any start address) the grid has zero
\* rows and point_to_addr returns no match for every point.
C32_EmptyRegionMatchesNothing ==
    /\ hex.num_bytes = 0 =>
          /\ hex.num_rows = 0
          /\ \A x \in ProbeXs, y \in ProbeYs : point_to_addr(hex, <<x, y>>) = <<>>
    /\ \A start \in {0, MaxStart, 15, 16, 17} :
          LET h == set_data(World, start, 0, ObsNone).hex
          IN  /\ h.num_rows = 0
              /\ \A x \in ProbeXs, y \in ProbeYs : point_to_addr(h, <<x, y>>) = <<>>

\* a grid that shows the empty region at a start address other than 0
C32_Witness ==
    /\ last = "set_data"
    /\ hex.num_bytes = 0
    /\ hex.start_addr = MaxStart
    /\ hex.num_rows = 0

(***************************************************************************)
(* SpecRuns: the HexView over a loaded object of RunsSize bytes, taken     *)
(* through cursor moves (plain and selecting), nibble edits, splits and    *)
(* merges of the selected patches, so that the selection holds several     *)
(* runs of adjacent patches.                                               *)
(***************************************************************************)
RunsSize == 5

RunsStartWorld ==
    LET w0 == [hex |-> HexInit, view |-> ViewInit, heap |-> <<>>, pm |-> <<>>]
        w1 == set_data_callback(w0, LoaderMin, RunsSize, ObsNone)
    IN  _update_highlight_regions_from_patches(w1)

RunsStart ==
    /\ hex = RunsStartWorld.hex
    /\ view = [RunsStartWorld.view EXCEPT !.notifications = 0]
    /\ patches = <<>>
    /\ geom = GeomInit
    /\ edit = EditInit
    /\ jm = JmInit
    /\ scenario = ScenarioInit
    /\ last = "init"

RunsKeyMove ==
    \E name \in {"Left", "Right"}, shift \in BOOLEAN :
        Commit(keyPressEvent(World, [name |-> name, code |-> 0], shift, FALSE, EnvView),
               IF shift THEN "key_shift" ELSE "key_plain")

RunsKeyDigit ==
    \E code \in DigitCodes :
        Commit(keyPressEvent(World, [name |-> "Char", code |-> code], FALSE, FALSE, EnvView),
               "key_digit")

RunsSplit ==
    \E i \in DOMAIN get_highlight_regions_under_cursor(hex) :
        LET r == get_highlight_regions_under_cursor(hex)[i]
        IN  /\ IsPatchRegion(r)
            /\ can_split(World, r)
            /\ Commit(split(World, r), "split")

RunsMergeSelected ==
    /\ Len(SelectedPatchRegions(World)) > 0
    /\ _can_merge_any_selected_patches(World)
    /\ Commit(_merge_selected_patches(World, FALSE).w, "merge_selected")

RunsNext ==
    \/ RunsKeyMove
    \/ RunsKeyDigit
    \/ RunsSplit
    \/ RunsMergeSelected

SpecRuns == RunsStart /\ [][RunsNext]_vars

\* the addresses of the selected patches, and the runs they form
SelectedAddrs == {SelectedPatchRegions(World)[i].patch : i \in DOMAIN SelectedPatchRegions(World)}
RunFollower(a) == a + Len(patches[a])
RunContinues(a) == \E b \in SelectedAddrs : RunFollower(b) = a
RECURSIVE RunBytes(_)
RunBytes(a) ==
    patches[a] \o (IF RunFollower(a) \in SelectedAddrs THEN RunBytes(RunFollower(a)) ELSE <<>>)
RunsMerged ==
    [a \in {b \in DOMAIN patches : ~(b \in SelectedAddrs /\ RunContinues(b))} |->
        IF a \in SelectedAddrs THEN RunBytes(a) ELSE patches[a]]

\* C33: merging the selected patches ends for every list of selected patches, and when
\* it ends every maximal run of directly adjacent selected patches has become a single
\* patch at the run's first address whose bytes are the run's bytes concatenated in
\* address order, with the patches outside such runs unchanged.
C33_MergeEndsWithRunsMerged ==
    LET m == _merge_selected_patches(World, FALSE)
    IN  /\ SelectedAddrs \subseteq DOMAIN patches
        /\ m.ended
        /\ m.returned
        /\ DictOf(m.w) = RunsMerged
        /\ \A a \in DOMAIN m.w.pm : m.w.pm[a] = a
        /\ m.result = (\E a \in SelectedAddrs : RunContinues(a))
        /\ _merge_selected_patches(World, TRUE).ended

\* two runs of two one-byte patches each, with an unpatched byte between them, have
\* just been merged by one call
C33_Witness ==
    /\ last = "merge_selected"
    /\ view.notifications = 2
    /\ DOMAIN patches = {LoaderMin, LoaderMin + 3}
    /\ Len(patches[LoaderMin]) = 2
    /\ Len(patches[LoaderMin + 3]) = 2
    /\ patches[LoaderMin][1] # patches[LoaderMin][2]

\* a run of three one-byte patches has just been merged by one call
C33_WitnessRunOfThree ==
    /\ last = "merge_selected"
    /\ view.notifications = 3
    /\ \E a \in DOMAIN patches : Len(patches[a]) = 3

\* C34: whenever no set_cursor call is executing, the re-entrancy flag
\* _processing_cursor_update is false; hence after any sequence of moves (accepted,
\* rejected as out of bounds, or dropped as nested) a later in-bounds top-level move is
\* always accepted.
C34_FlagClearBetweenMoves ==
    /\ ~hex.processing_cursor_update
    /\ \A addr \in MoveAddrs, obs \in GridObservers :
          LET w2 == set_cursor(World, addr, None, 0, obs)
          IN  /\ ~w2.hex.processing_cursor_update
              /\ (hex.start_addr <= addr /\ addr < hex.end_addr) =>
                    (w2.hex.cursor = addr /\ w2.hex.cursor_nibble = 0)

\* a move whose observer tried a nested move to another address has just ended on the
\* last address of the region: the nested move was dropped and the flag is clear again
C34_Witness ==
    /\ last = "set_cursor_nested"
    /\ hex.num_bytes = MaxBytes
    /\ hex.cursor = hex.end_addr - 1
    /\ ~hex.processing_cursor_update

\* C35: in every reachable state in which a selection anchor is set, the anchor lies in
\* [start_addr, end_addr), also after begin_selection on a freshly constructed grid and
\* after set_data / set_data_callback replaces the displayed region while a selection
\* exists.
C35_AnchorInsideRegion ==
    hex.selection_start # None =>
        (hex.start_addr <= hex.selection_start /\ hex.selection_start < hex.end_addr)

\* the same for the grids that show at least one byte
C35_AnchorInsideNonEmptyRegion ==
    (hex.selection_start # None /\ hex.num_bytes > 0) =>
        (hex.start_addr <= hex.selection_start /\ hex.selection_start < hex.end_addr)

(***************************************************************************)
(* SpecNibble: the HexGraphicsObject over one byte served by callbacks.    *)
(* edit.mem is the byte behind read_func / write_func (None: read_func     *)
(* returns '?'); the write callback stores what it is given and accepts.   *)
(***************************************************************************)
ByteValues == 0..255
NibbleDigitCodes == (48..57) \cup (97..102)

NibbleStartWorld ==
    set_data_callback([hex |-> HexInit, view |-> ViewInit, heap |-> <<>>, pm |-> <<>>],
                      0, 1, ObsNone)

NibbleStart ==
    /\ hex = NibbleStartWorld.hex
    /\ view = ViewInit
    /\ patches = <<>>
    /\ geom = GeomInit
    /\ scenario = ScenarioInit
    /\ jm = JmInit
    /\ last = "init"
    /\ \E b \in ByteValues \cup {None} : edit = [EditInit EXCEPT !.mem = b]

NibbleCommit(w, op, e) ==
    /\ hex' = w.hex
    /\ view' = w.view
    /\ last' = op
    /\ edit' = e
    /\ UNCHANGED <<patches, geom, scenario, jm>>

\* a hex digit typed in the byte column: _set_nibble_value; the callback receives
\* (cursor, new_byte_value)
NibbleType ==
    \E code \in NibbleDigitCodes :
        LET env == Bare("accept", edit.mem, ObsNone)
            nibble == IF hex.cursor_nibble = None THEN 1 ELSE hex.cursor_nibble
            value == HexDigitValue(code)
            new_byte_value == NibbleByte(read_func(World, hex.cursor, env), nibble, value)
        IN  NibbleCommit(keyPressEvent(World, [name |-> "Char", code |-> code],
                                       FALSE, FALSE, env),
                         IF nibble = 1 THEN "nibble_high" ELSE "nibble_low",
                         [mem |-> new_byte_value, before |-> edit.mem, nibble |-> nibble,
                          value |-> value, written |-> new_byte_value])

\* a click on the byte: set_cursor without a nibble
NibbleClick ==
    NibbleCommit(set_cursor(World, hex.start_addr, 0, None, ObsNone), "click", edit)

NibbleNext ==
    \/ NibbleType
    \/ NibbleClick

SpecNibble == NibbleStart /\ [][NibbleNext]_vars

\* C36: a successful nibble edit of digit v on nibble n (1 = high, 0 = low) of a byte
\* whose current value b is available writes b with nibble n replaced by v and the other
\* nibble unchanged, always within 0..255; when the current value is unavailable the
\* written byte is v in nibble n and 0 in the other nibble.
C36_NibbleEditReplacesOneNibble ==
    edit.written # None =>
        LET b == edit.before
            v == edit.value
            high == edit.written \div 16
            low == edit.written % 16
        IN  /\ edit.written \in ByteValues
            /\ v \in 0..15
            /\ edit.nibble = 1 =>
                  (high = v /\ low = (IF b = None THEN 0 ELSE b % 16))
            /\ edit.nibble = 0 =>
                  (low = v /\ high = (IF b = None THEN 0 ELSE b \div 16))

\* digit 0xA has just been written to the low nibble of a byte that held 0xF in its high
\* nibble and something else than 0xA in the low one
C36_Witness ==
    /\ last = "nibble_low"
    /\ edit.before # None
    /\ edit.before \div 16 = 15
    /\ edit.before % 16 = 5
    /\ edit.value = 10
    /\ edit.written = 250

\* digit 7 has just been written to the high nibble of a byte whose value is unavailable
C36_WitnessUnavailable ==
    /\ last = "nibble_high"
    /\ edit.before = None
    /\ edit.written = 112

\* C37: for a region with num_bytes > 0, every address a in [start_addr, end_addr) maps
\* to a row in 0..num_rows-1 and a column in 0..15, and the last row (num_rows-1)
\* contains end_addr-1, so the grid has neither a missing nor an empty trailing row.
C37_RowsCoverRegionExactly ==
    LET num_rows == NumRows(geom.start_addr, geom.num_bytes)
        end_addr == geom.start_addr + geom.num_bytes
    IN  /\ geom.converted =>
              /\ geom.row \in 0..(num_rows - 1)
              /\ geom.col \in 0..15
        /\ geom.num_bytes > 0 =>
              /\ num_rows >= 1
              /\ addr_to_row_col(geom.start_addr, end_addr - 1)[1] = num_rows - 1
              /\ addr_to_row_col(geom.start_addr, geom.start_addr)[1] = 0

\* the last address of a region that starts in the middle of a row and ends in a row
\* that a count from an aligned start would not have
C37_Witness ==
    /\ last = "convert"
    /\ geom.converted
    /\ geom.start_addr % 16 = 15
    /\ geom.num_bytes = 18
    /\ geom.addr = geom.start_addr + geom.num_bytes - 1
    /\ geom.row = 2
    /\ geom.col = 0

(***************************************************************************)
(* SpecJobs: the JobManager and its worker thread (logic/jobmanager.py).   *)
(* jm holds                                                                *)
(*   jobs, queue    JobManager.jobs (a list) and JobManager.jobs_queue     *)
(*   pc, job        the worker thread's position in Worker.run and its     *)
(*                  local variable job                                     *)
(*   current_job    Worker.current_job                                     *)
(*   pending        a KeyboardInterrupt set on the worker thread with      *)
(*                  PyThreadState_SetAsyncExc and not yet raised in it     *)
(*   gui            the position of the thread that calls cancel_job       *)
(*   join           the position of the caller of join_all_jobs            *)
(* and, for the properties, which jobs were added, cancelled, cancelled    *)
(* while waiting in the queue, started by the worker, and raised.          *)
(* The calls scheduled on the GUI thread (progress display) and Job.run /  *)
(* Job.finish are external; a run returns or raises.                       *)
(***************************************************************************)
MaxJobs == 3
JobIds == 1..MaxJobs

InSeq(x, s) == \E i \in DOMAIN s : s[i] = x

\* list.remove(x): drops the first occurrence
ListRemove(s, x) ==
    LET i == CHOOSE k \in DOMAIN s : s[k] = x /\ \A q \in 1..(k - 1) : s[q] # x
    IN  SubSeq(s, 1, i - 1) \o SubSeq(s, i + 1, Len(s))

\* JobManager.__init__ and _start_worker: the worker waits at the head of its loop
JobsInit ==
    [jobs |-> <<>>, queue |-> <<>>,
     pc |-> "get", job |-> None, current_job |-> None, pending |-> FALSE,
     gui |-> [pc |-> "idle", job |-> None],
     join |-> "none",
     added |-> {}, cancelled |-> {}, cancelled_waiting |-> {}, ran |-> {}, raised |-> {}]

JobsStart ==
    /\ hex = HexInit
    /\ view = ViewInit
    /\ patches = <<>>
    /\ geom = GeomInit
    /\ scenario = ScenarioInit
    /\ edit = EditInit
    /\ jm = JobsInit
    /\ last = "init"

JobsStep(j, op) ==
    /\ jm' = j
    /\ last' = op
    /\ UNCHANGED <<hex, view, patches, geom, scenario, edit>>

\* JobManager.add_job
add_job ==
    \E job \in JobIds \ jm.added :
        /\ jm.gui.pc = "idle"
        /\ JobsStep([jm EXCEPT !.jobs = Append(@, job),
                               !.queue = Append(@, job),
                               !.added = @ \cup {job}], "add_job")

\* JobManager.cancel_job, lines 142-143: the job leaves the jobs list, not the queue
cancel_job ==
    \E job \in jm.added \ jm.cancelled :
        /\ jm.gui.pc = "idle"
        /\ JobsStep([jm EXCEPT !.jobs = IF InSeq(job, @) THEN ListRemove(@, job) ELSE @,
                               !.gui = [pc |-> "cancel_check", job |-> job],
                               !.cancelled = @ \cup {job},
                               !.cancelled_waiting =
                                   IF InSeq(job, jm.queue) THEN @ \cup {job} ELSE @],
                    IF InSeq(job, jm.queue) THEN "cancel_waiting" ELSE "cancel_job")

\* cancel_job, line 144: the test of worker_thread.current_job
cancel_job_check ==
    /\ jm.gui.pc = "cancel_check"
    /\ JobsStep([jm EXCEPT !.gui = IF jm.current_job = jm.gui.job
                                   THEN [@ EXCEPT !.pc = "cancel_interrupt"]
                                   ELSE [pc |-> "idle", job |-> None]],
                "cancel_job_check")

\* Worker.keyboard_interrupt: the exception is set on the thread if it still runs
keyboard_interrupt ==
    /\ jm.gui.pc = "cancel_interrupt"
    /\ JobsStep([jm EXCEPT !.gui = [pc |-> "idle", job |-> None],
                           !.pending = (jm.pc # "dead")],
                "keyboard_interrupt")

\* Worker.run, line 68: jobs_queue.get()
WorkerGet ==
    /\ jm.pc = "get"
    /\ jm.queue # <<>>
    /\ JobsStep([jm EXCEPT !.job = Head(jm.queue), !.queue = Tail(@), !.pc = "try"],
                "worker_get")

\* lines 74-80: the try block is entered and current_job set
WorkerEnter ==
    /\ jm.pc = "try"
    /\ JobsStep([jm EXCEPT !.current_job = jm.job, !.pc = "call"], "worker_enter")

\* line 81: job.run(ctx) is called
WorkerCall ==
    /\ jm.pc = "call"
    /\ JobsStep([jm EXCEPT !.ran = @ \cup {jm.job}, !.pc = "run"], "worker_call")

\* job.run returns
JobReturns ==
    /\ jm.pc = "run"
    /\ JobsStep([jm EXCEPT !.pc = "returned"], "job_returns")

\* job.run raises an Exception: the except clause is entered
JobRaises ==
    /\ jm.pc = "run"
    /\ JobsStep([jm EXCEPT !.raised = @ \cup {jm.job}, !.pc = "except"], "job_raises")

\* lines 82-86: current_job is reset at the end of the try block
WorkerClear ==
    /\ jm.pc = "returned"
    /\ JobsStep([jm EXCEPT !.current_job = None, !.pc = "else"], "worker_clear")

\* lines 93-95: jobs.remove(job), which raises ValueError outside the try block when the
\* job is not in the list, and ends the thread
WorkerRemove ==
    /\ jm.pc = "else"
    /\ JobsStep(IF InSeq(jm.job, jm.jobs)
                THEN [jm EXCEPT !.jobs = ListRemove(@, jm.job), !.pc = "get"]
                ELSE [jm EXCEPT !.pc = "dead"],
                IF InSeq(jm.job, jm.jobs) THEN "worker_remove" ELSE "worker_dies")

\* lines 87-92: the except clause (job_worker_exception_callback is None); the job stays
\* in the jobs list
WorkerExcept ==
    /\ jm.pc = "except"
    /\ JobsStep([jm EXCEPT !.current_job = None, !.pc = "get"], "worker_except")

\* the pending KeyboardInterrupt is raised in the worker thread: inside the try block
\* it is caught by the except clause, anywhere else it ends the thread
InterruptRaised ==
    /\ jm.pending
    /\ jm.pc # "dead"
    /\ JobsStep([jm EXCEPT !.pending = FALSE,
                           !.pc = IF jm.pc \in {"call", "run", "returned"}
                                  THEN "except" ELSE "dead"],
                IF jm.pc \in {"call", "run", "returned"}
                THEN "interrupt_caught" ELSE "interrupt_ends_thread")

\* join_all_jobs is called
join_all_jobs ==
    /\ jm.join = "none"
    /\ JobsStep([jm EXCEPT !.join = "waiting"], "join_all_jobs")

\* join_all_jobs returns: the jobs list was empty for wait_period
JoinReturns ==
    /\ jm.join = "waiting"
    /\ jm.jobs = <<>>
    /\ JobsStep([jm EXCEPT !.join = "returned"], "join_returns")

WorkerStep ==
    \/ WorkerGet
    \/ WorkerEnter
    \/ WorkerCall
    \/ JobReturns
    \/ JobRaises
    \/ WorkerClear
    \/ WorkerRemove
    \/ WorkerExcept

JobsNext ==
    \/ add_job
    \/ cancel_job
    \/ cancel_job_check
    \/ keyboard_interrupt
    \/ WorkerGet
    \/ WorkerEnter
    \/ WorkerCall
    \/ JobReturns
    \/ JobRaises
    \/ WorkerClear
    \/ WorkerRemove
    \/ WorkerExcept
    \/ InterruptRaised
    \/ join_all_jobs
    \/ JoinReturns

SpecJobs == JobsStart /\ [][JobsNext]_vars

\* the worker thread and the threads inside cancel_job and join_all_jobs keep running
\* while they can take a step, and a job's run ends by returning or raising
SpecJobsFair ==
    /\ JobsStart
    /\ [][JobsNext]_vars
    /\ WF_vars(WorkerStep)
    /\ WF_vars(InterruptRaised)
    /\ WF_vars(cancel_job_check)
    /\ WF_vars(keyboard_interrupt)
    /\ WF_vars(JoinReturns)

\* C38: a job that is cancelled with cancel_job while it is still waiting in the queue
\* (not yet taken by the worker) is never run by the worker.
C38_CancelledWaitingJobNeverRuns == jm.cancelled_waiting \cap jm.ran = {}

\* C39: the worker keeps serving the queue under every interleaving of add_job,
\* cancel_job and job outcomes: after any job ends the worker loop goes on and every job
\* added later is eventually taken and run.
C39_QueuedJobsEventuallyRun ==
    \A job \in JobIds : InSeq(job, jm.queue) ~> (job \in jm.ran)

\* the worker thread never ends
C39_WorkerNeverEnds == jm.pc # "dead"

\* C40: if every job's run terminates (by returning or by raising) and no further job is
\* added, the jobs list eventually becomes empty, so join_all_jobs eventually returns; in
\* particular a job whose run raised an exception is removed from the jobs list.
C40_JobsListEventuallyEmpty ==
    /\ <>[](jm.jobs = <<>>)
    /\ (jm.join = "waiting") ~> (jm.join = "returned")

\* the same for the runs in which no job is ever cancelled
C40_JobsListEventuallyEmptyWithoutCancel ==
    [](jm.cancelled = {}) =>
        /\ <>[](jm.jobs = <<>>)
        /\ (jm.join = "waiting") ~> (jm.join = "returned")

\* a job whose run raised is out of the jobs list once the worker is back at its loop head
C40_RaisedJobLeavesList ==
    \A job \in jm.raised : (jm.pc = "get" /\ jm.job = job) => ~InSeq(job, jm.jobs)

====
